---- MODULE Spec2Model ----
(***************************************************************************)
(* A model of the G-code emission layer of libslic3r.                      *)
(*                                                                         *)
(* GCodeWriter.cpp: the lift / unlift state machine with the travel and    *)
(* extrusion moves that interact with it (Spec), the deduplication of      *)
(* bed-temperature commands (SpecBed), the clamping and deduplication of   *)
(* acceleration and jerk commands (SpecAccel), tool changes, retraction    *)
(* and unretraction (SpecTool), and the number formatter                   *)
(* GCodeFormatter::emit_axis (SpecFormat).                                 *)
(* GCode/SpiralVase.cpp: the per-layer spiral vase transform (SpecVase).   *)
(* slic3r/GUI/PrintagoPanel.cpp: the command and slicing-completed         *)
(* handlers of the Printago panel (SpecPanel), the two threads of          *)
(* DownloadFileFromURL (SpecDownload, FairSpecDownload) and the            *)
(* navigation handler (SpecNavigation).                                    *)
(*                                                                         *)
(* Writer lengths (X, Y, Z, lift amounts) are integers on a grid of half   *)
(* an EPSILON: one unit is 0.00005 mm, so EPSILON (1e-4 mm) is 2 units and *)
(* a non-zero length below EPSILON exists on the grid.  Spiral vase        *)
(* lengths are in units of 0.1 mm.  The formatter's values are integers    *)
(* in units of one tenth of the last emitted decimal place.                *)
(* A returned G-code string is a sequence of lines; a line is a record     *)
(* whose axis fields are {} (field absent) or {v} (field present).  The    *)
(* formatter returns a sequence of characters.                             *)
(***************************************************************************)
EXTENDS Integers, Sequences, FiniteSets, TLC

VARIABLES
    m_pos,                          \* Vec3d m_pos: [x, y, z]
    m_lifted,                       \* double m_lifted
    m_to_lift,                      \* double m_to_lift
    m_to_lift_type,                 \* LiftType m_to_lift_type
    m_is_current_pos_clear,         \* bool m_is_current_pos_clear
    m_E,                            \* m_extruder->E()
    z_hop,                          \* config.z_hop.get_at(m_extruder->id())
    use_relative_e_distances,       \* config.use_relative_e_distances
    assert_ok,                      \* FALSE once an assert() of the writer failed
    m_last_bed_temperature,         \* int m_last_bed_temperature
    m_last_bed_temperature_reached, \* bool m_last_bed_temperature_reached
    bed_issued,                     \* the bed commands emitted so far (history)
    honored_lift,                   \* type of the last lift() honored since the last unlift(),
                                    \* "none" if there is none (history)
    gcode_flavor,                   \* config.gcode_flavor
    adjust_accel_to_decel,          \* config.adjust_accel_to_decel
    use_firmware_retraction,        \* config.use_firmware_retraction
    retraction_length,              \* m_extruder->retraction_length()
    retract_length_toolchange,      \* m_extruder->retract_length_toolchange()
    m_max_acceleration,             \* unsigned int m_max_acceleration
    m_max_jerk,                     \* unsigned int m_max_jerk
    m_last_acceleration,            \* unsigned int m_last_acceleration
    m_last_jerk,                    \* unsigned int m_last_jerk
    accel_emitted,                  \* {} or {the value of the last acceleration command
                                    \* emitted} (history)
    jerk_emitted,                   \* the same for the jerk commands (history)
    m_extruders,                    \* std::vector<Extruder> m_extruders, as a function from
                                    \* the configured ids to the extruders' state
    m_extruder,                     \* Extruder *m_extruder: the id of the extruder pointed
                                    \* to, "nullptr", or "end" (one past the vector)
    multiple_extruders,             \* bool multiple_extruders
    NDEBUG,                         \* the build compiles assert() out
    aborted,                        \* a failed assert() has ended the process
    m_enabled,                      \* bool SpiralVase::m_enabled
    m_transition_layer,             \* bool SpiralVase::m_transition_layer
    m_smooth_spiral,                \* bool SpiralVase::m_smooth_spiral
    m_previous_layer,               \* std::vector<SpiralPoint> *m_previous_layer: {} for
                                    \* NULL, {points} for a vector
    m_reader,                       \* GCodeReader m_reader: the position [x, y, z, e]
    vectors,                        \* the vectors process_layer has allocated with new: for
                                    \* each the number of times it was deleted (history)
    m_previous_layer_at,            \* which of them m_previous_layer points to, 0 for NULL
    read_deleted,                   \* a vector was read after it was deleted (history)
    m_can_process_job,              \* bool PrintagoPanel::m_can_process_job
    jobPrinterId,                   \* wxString jobPrinterId
    jobCommand,                     \* wxString jobCommand, <<>> when empty
    jobLocalFilePath,               \* wxString jobLocalFilePath
    m_select_machine_dlg,           \* SelectMachineDialog *m_select_machine_dlg is not null
    reslicing,                      \* the plater is slicing since a reslice() (history)
    accepted_job,                   \* <<printer id, command>> of the start_print_bbl that
                                    \* was accepted and is not finished, or <<>> (history)
    issued,                         \* what the last handler asked of the printers and of
                                    \* the plater (history)
    cont,                           \* bool cont of DownloadFileFromURL
    download_ok,                    \* bool download_ok
    retry_count,                    \* int retry_count
    percent,                        \* int percent
    download_thread,                \* where the download thread is
    caller,                         \* where the thread that called DownloadFileFromURL is
    attempts,                       \* how the HTTP attempts made ended (history)
    returned,                       \* {} or {the value DownloadFileFromURL returned}
    m_info_shown,                   \* m_info->IsShown()
    vetoed,                         \* evt.Veto() was called by the last handler
    item_read,                      \* the indices pathComponents.Item() was asked for by
                                    \* the last handler that are not in the array (history)
    call,                           \* the last call made on the writer (history)
    out                             \* the string the last call returned

liftVars == <<m_pos, m_lifted, m_to_lift, m_to_lift_type, m_is_current_pos_clear,
              m_E, z_hop, use_relative_e_distances, assert_ok, honored_lift>>
bedVars == <<m_last_bed_temperature, m_last_bed_temperature_reached, bed_issued>>
cfgVars == <<gcode_flavor, adjust_accel_to_decel, use_firmware_retraction,
             retraction_length, retract_length_toolchange>>
accelVars == <<m_max_acceleration, m_max_jerk, m_last_acceleration, m_last_jerk,
               accel_emitted, jerk_emitted>>
toolVars == <<m_extruders, m_extruder, multiple_extruders, NDEBUG, aborted>>
\* The state the motion and bed-temperature operations neither read nor write.
vaseVars == <<m_enabled, m_transition_layer, m_smooth_spiral, m_previous_layer, m_reader,
              vectors, m_previous_layer_at, read_deleted>>
panelVars == <<m_can_process_job, jobPrinterId, jobCommand, jobLocalFilePath,
               m_select_machine_dlg, reslicing, accepted_job, issued>>
downloadVars == <<cont, download_ok, retry_count, percent, download_thread, caller,
                  attempts, returned>>
navVars == <<m_info_shown, vetoed, item_read>>
\* The state of the panel, which the G-code layer neither reads nor writes.
guiVars == <<panelVars, downloadVars, navVars>>
extVars == <<cfgVars, accelVars, toolVars, vaseVars, guiVars>>
\* The state of the G-code layer, which the panel neither reads nor writes.
gcodeVars == <<liftVars, bedVars, cfgVars, accelVars, toolVars, vaseVars>>
vars == <<liftVars, bedVars, extVars, call, out>>

----------------------------------------------------------------------------
(* Bounds of the model. *)

\* Z targets passed to the writer are 0..MaxZ.
MaxZ == 4
\* The accumulated E of the extruder is kept within 0..MaxE.
MaxE == 1
\* Bed temperatures requested are 0..MaxTemp.
MaxTemp == 3
\* At most MaxIssued emitted bed commands are remembered in bed_issued.
MaxIssued == 2
\* The machine limits configured are 0..MaxLimit, the values requested 0..MaxLimit + 1.
MaxLimit == 2
\* The values formatted have mantissas 0..MaxMantissa.
MaxMantissa == 125
\* A print has at most MaxLayers layers.
MaxLayers == 2

----------------------------------------------------------------------------
(* Program constants. *)

\* EPSILON = 1e-4 mm, in grid units of 0.00005 mm.
EPSILON == 2

\* slope_threshold = 3 * PI / 180: tan(slope_threshold) = 0.0524 = SlopeTanNum / SlopeTanDen,
\* and 1 / (2 * PI * atan(slope_threshold)) = 3.042 = SpiralNum / SpiralDen.
SlopeTanNum == 131
SlopeTanDen == 2500
SpiralNum == 3042
SpiralDen == 1000

\* The configured z_hop values tried: one above EPSILON, none, one below EPSILON.
ZHops == <<3, 0, 1>>
\* No physical Z beyond ZLimit: lifts that would go higher are not taken.
ZLimit == MaxZ + 3

Zs == 0 .. MaxZ
\* XY sample points: from any of them the same point, a near one (a steep climb to a
\* hop) and a far one (a climb shallower than slope_threshold).
Points == {<<0, 0>>, <<10, 0>>, <<0, 100>>}
\* (dE, force_no_extrusion) of an extrusion move: nothing to extrude, an extrusion, a wipe.
ExtrudeArgs == {<<0, FALSE>>, <<1, FALSE>>, <<1, TRUE>>}
LiftTypes == {"NormalLift", "LazyLift", "SpiralLift"}
Temps == 0 .. MaxTemp

Abs(v) == IF v < 0 THEN -v ELSE v
\* Vec2d::norm(), rounded down to the grid.
Norm(dx, dy) ==
    IF dy = 0 THEN Abs(dx)
    ELSE IF dx = 0 THEN Abs(dy)
    ELSE CHOOSE r \in 0 .. (Abs(dx) + Abs(dy)) :
             r * r <= dx * dx + dy * dy /\ (r + 1) * (r + 1) > dx * dx + dy * dy
\* Rounding division toward zero, as the formatter's fixed precision would round.
Div(a, b) == IF a < 0 THEN -((-a) \div b) ELSE a \div b

\* BBS plate offset (m_x_offset, m_y_offset): the default {0}.
m_x_offset == 0
m_y_offset == 0

----------------------------------------------------------------------------
(* G-code lines. *)

NoLine == <<>>

Line(cmd, X, Y, Z, IJ, E, F, comment) ==
    [cmd |-> cmd, X |-> X, Y |-> Y, Z |-> Z, IJ |-> IJ, E |-> E, F |-> F,
     comment |-> comment]

\* GCodeG1Formatter: emit_xy, emit_f(travel_speed * 60), emit_comment
G1_XY_F(x, y, comment) == Line("G1", {x}, {y}, {}, {}, {}, "travel_speed", comment)
\* GCodeG1Formatter: emit_xyz, emit_f(travel_speed * 60), emit_comment
G1_XYZ_F(x, y, z, comment) == Line("G1", {x}, {y}, {z}, {}, {}, "travel_speed", comment)
\* GCodeG1Formatter: emit_z, emit_f(speed * 60), emit_comment
G1_Z_F(z, comment) == Line("G1", {}, {}, {z}, {}, {}, "travel_speed_z", comment)
\* "G17" followed by GCodeG2G3Formatter(true): emit_z, emit_ij, " P1 ", emit_f(speed * 60)
G17 == Line("G17", {}, {}, {}, {}, {}, "", "")
G3_Z_IJ_F(z, ij, comment) == Line("G3", {}, {}, {z}, {ij}, {}, "travel_speed_z", comment)
\* GCodeG1Formatter: emit_xy, optional emit_e, emit_comment
G1_XY_E(x, y, E, comment) == Line("G1", {x}, {y}, {}, {}, E, "", comment)
\* GCodeG1Formatter: emit_xyz, optional emit_e, emit_comment
G1_XYZ_E(x, y, z, E, comment) == Line("G1", {x}, {y}, {z}, {}, E, "", comment)
\* GCodeG2G3Formatter(is_ccw): emit_xy, emit_ij, optional emit_e, emit_comment
G2G3_XY_IJ_E(is_ccw, x, y, ij, E, comment) ==
    Line(IF is_ccw THEN "G3" ELSE "G2", {x}, {y}, {}, {ij}, E, "", comment)

HasZ(line) == line.Z # {}
HasXY(line) == line.X # {} /\ line.Y # {}
IsArc(line) == line.cmd = "G3" /\ line.Z # {} /\ line.IJ # {}

----------------------------------------------------------------------------
(* The call record: which operation ran last, with its lift type or Z       *)
(* argument, the nominal Z (m_pos(2) - m_lifted) the call started from,    *)
(* and {Z} when the call before it was a travel_to_z(Z) that emitted       *)
(* nothing with Z strictly inside the lifted envelope ({} otherwise).      *)

\* The last call was a travel_to_z(Z) that emitted nothing, with Z strictly between
\* the nominal Z it started from and the (unchanged) current Z.
SuppressedStrictlyInside ==
    /\ call.op = "travel_to_z"
    /\ out = <<>>
    /\ call.z > call.nominal_z
    /\ call.z < m_pos.z

Call(op, lift_type, z) ==
    [op |-> op, lift_type |-> lift_type, z |-> z, nominal_z |-> m_pos.z - m_lifted,
     after_suppressed |-> IF SuppressedStrictlyInside THEN {call.z} ELSE {}]

\* The same for an extrusion move, with the dE and force_no_extrusion it was given and
\* the lift that was applied when it was made.
ExtrudeCall(op, z, dE, force_no_extrusion) ==
    [op |-> op, lift_type |-> "none", z |-> z, nominal_z |-> m_pos.z - m_lifted,
     after_suppressed |-> IF SuppressedStrictlyInside THEN {call.z} ELSE {},
     dE |-> dE, force_no_extrusion |-> force_no_extrusion, lifted |-> m_lifted]

NoCall == [op |-> "none", lift_type |-> "none", z |-> 0, nominal_z |-> 0,
           after_suppressed |-> {}]

----------------------------------------------------------------------------
(* GCodeWriter: Z moves and the lift state machine. *)

\* GCodeWriter::_travel_to_z: the line it returns (m_pos(2) = z is set by the caller's action).
_travel_to_z(z, comment) == <<G1_Z_F(z, comment)>>

\* GCodeWriter::will_move_z
will_move_z_always(z) == TRUE
will_move_z(z) ==
    IF m_lifted > 0
    THEN ~(z >= m_pos.z - m_lifted /\ z <= m_pos.z)
    ELSE ~(Abs(m_pos.z - z) < EPSILON)

\* The lift amount after a suppressed Z move to z (travel_to_z, travel_to_xyz):
\*   nominal_z = m_pos(2) - m_lifted;  m_lifted -= (z - nominal_z);
\*   if (std::abs(m_lifted) < EPSILON) m_lifted = 0.;
reduced_lifted_keep(z) == m_lifted
reduced_lifted(z) ==
    LET nominal_z == m_pos.z - m_lifted
        lifted == m_lifted - (z - nominal_z)
    IN  IF Abs(lifted) < EPSILON THEN 0 ELSE lifted

\* GCodeWriter::travel_to_z
travel_to_z(z) ==
    /\ call' = Call("travel_to_z", "none", z)
    /\ IF ~will_move_z(z)
       THEN /\ m_lifted' = reduced_lifted(z)
            /\ out' = NoLine
            /\ UNCHANGED m_pos
       ELSE /\ m_lifted' = 0
            /\ m_pos' = [m_pos EXCEPT !.z = z]
            /\ out' = _travel_to_z(z, "")
    /\ UNCHANGED <<m_to_lift, m_to_lift_type, m_is_current_pos_clear, m_E, z_hop,
                   use_relative_e_distances, assert_ok, honored_lift, bedVars, extVars>>

\* GCodeWriter::lift: the condition under which a lift request is honored.
lift_honored_ignoring_pending(target_lift) == m_lifted = 0 /\ target_lift > 0
lift_honored_ignoring_lifted(target_lift) == m_to_lift = 0 /\ target_lift > 0
lift_honored(target_lift) == m_lifted = 0 /\ m_to_lift = 0 /\ target_lift > 0

\* GCodeWriter::lift
lift(lift_type) ==
    LET target_lift == z_hop
    IN  /\ call' = Call("lift", lift_type, 0)
        /\ IF lift_honored(target_lift)
           THEN IF lift_type = "LazyLift" \/ lift_type = "SpiralLift"
                THEN /\ m_to_lift' = target_lift
                     /\ m_to_lift_type' = lift_type
                     /\ out' = NoLine
                     /\ UNCHANGED <<m_lifted, m_pos>>
                ELSE /\ m_lifted' = target_lift
                     /\ m_pos' = [m_pos EXCEPT !.z = m_pos.z + target_lift]
                     /\ out' = _travel_to_z(m_pos.z + target_lift, "lift Z")
                     /\ UNCHANGED <<m_to_lift, m_to_lift_type>>
           ELSE /\ out' = NoLine
                /\ UNCHANGED <<m_lifted, m_pos, m_to_lift, m_to_lift_type>>
        /\ honored_lift' = IF lift_honored(target_lift) THEN lift_type ELSE honored_lift
        /\ m_pos'.z <= ZLimit
        /\ UNCHANGED <<m_is_current_pos_clear, m_E, z_hop, use_relative_e_distances,
                       assert_ok, bedVars, extVars>>

\* GCodeWriter::unlift
unlift_keep_pending(pending) == pending
unlift_pending(pending) == 0
unlift ==
    /\ call' = Call("unlift", "none", 0)
    /\ IF m_lifted > 0
       THEN /\ out' = _travel_to_z(m_pos.z - m_lifted, "restore layer Z")
            /\ m_pos' = [m_pos EXCEPT !.z = m_pos.z - m_lifted]
            /\ m_lifted' = 0
       ELSE /\ out' = NoLine
            /\ UNCHANGED <<m_lifted, m_pos>>
    /\ m_to_lift' = unlift_pending(m_to_lift)
    /\ honored_lift' = "none"
    /\ UNCHANGED <<m_to_lift_type, m_is_current_pos_clear, m_E, z_hop,
                   use_relative_e_distances, assert_ok, bedVars, extVars>>

----------------------------------------------------------------------------
(* GCodeWriter: travel moves. *)

\* GCodeWriter::travel_to_xy
travel_to_xy(point) ==
    /\ call' = Call("travel_to_xy", "none", 0)
    /\ m_pos' = [m_pos EXCEPT !.x = point[1], !.y = point[2]]
    /\ m_is_current_pos_clear' = TRUE
    /\ out' = <<G1_XY_F(point[1] - m_x_offset, point[2] - m_y_offset, "")>>
    /\ UNCHANGED <<m_lifted, m_to_lift, m_to_lift_type, m_E, z_hop,
                   use_relative_e_distances, assert_ok, honored_lift, bedVars, extVars>>

\* travel_to_xyz, pending-lift branch: whether the hop is taken on this travel.
takes_hop_always(point) == TRUE
takes_hop(point) ==
    /\ (~m_is_current_pos_clear \/ m_pos # point)
    /\ m_to_lift + m_pos.z > point.z

\* travel_to_xyz, pending-lift branch: the slope or spiral move put before the travel.
\* delta is target - source; the slope top point and the arc centre offset are
\* computed on the grid.
slop_move_ignoring_type(source, delta, comment) ==
    LET n == Norm(delta.x, delta.y)
    IN  IF m_is_current_pos_clear /\ delta.z > 0 /\ (delta.x # 0 \/ delta.y # 0)
           /\ delta.z * delta.z * SlopeTanDen * SlopeTanDen
                 < (delta.x * delta.x + delta.y * delta.y) * SlopeTanNum * SlopeTanNum
        THEN LET run == Div(delta.z * SlopeTanDen, SlopeTanNum)
             IN  <<G1_XYZ_F(source.x + Div(delta.x * run, n),
                            source.y + Div(delta.y * run, n),
                            source.z + delta.z, comment)>>
        ELSE NoLine
slop_move(source, delta, comment) ==
    LET n == Norm(delta.x, delta.y)
    IN  IF m_is_current_pos_clear /\ delta.z > 0 /\ (delta.x # 0 \/ delta.y # 0)
        THEN IF m_to_lift_type = "SpiralLift"
             THEN LET radius == Div(delta.z * SpiralNum, SpiralDen)
                      ij_offset == <<-Div(radius * delta.y, n), Div(radius * delta.x, n)>>
                  IN  <<G17, G3_Z_IJ_F(source.z + delta.z, ij_offset, "spiral lift Z")>>
             ELSE IF delta.z * delta.z * SlopeTanDen * SlopeTanDen
                        < (delta.x * delta.x + delta.y * delta.y) * SlopeTanNum * SlopeTanNum
                  THEN LET run == Div(delta.z * SlopeTanDen, SlopeTanNum)
                       IN  <<G1_XYZ_F(source.x + Div(delta.x * run, n),
                                      source.y + Div(delta.y * run, n),
                                      source.z + delta.z, comment)>>
                  ELSE NoLine
        ELSE NoLine

\* GCodeWriter::travel_to_xyz
travel_to_xyz(point) ==
    /\ call' = Call("travel_to_xyz", "none", point.z)
    /\ IF Abs(m_to_lift) > EPSILON
       THEN LET hop == takes_hop(point)
                dest_point == IF hop THEN [point EXCEPT !.z = m_to_lift + m_pos.z] ELSE point
                source == [x |-> m_pos.x - m_x_offset, y |-> m_pos.y - m_y_offset, z |-> m_pos.z]
                target == [x |-> dest_point.x - m_x_offset, y |-> dest_point.y - m_y_offset,
                           z |-> dest_point.z]
                delta == [x |-> target.x - source.x, y |-> target.y - source.y,
                          z |-> target.z - source.z]
            IN  /\ assert_ok' = (assert_ok /\ Abs(m_lifted) < EPSILON)
                /\ m_lifted' = IF hop THEN m_to_lift + m_pos.z - point.z ELSE m_lifted
                /\ m_to_lift' = 0
                /\ m_pos' = dest_point
                /\ out' = slop_move(source, delta, "") \o <<G1_XYZ_F(target.x, target.y, target.z, "")>>
       ELSE IF ~will_move_z(point.z)
       THEN /\ m_lifted' = reduced_lifted(point.z)
            /\ m_pos' = [m_pos EXCEPT !.x = point.x, !.y = point.y]
            /\ out' = <<G1_XY_F(point.x - m_x_offset, point.y - m_y_offset, "")>>
            /\ UNCHANGED <<m_to_lift, assert_ok>>
       ELSE /\ m_lifted' = 0
            /\ m_pos' = point
            /\ out' = <<G1_XYZ_F(point.x - m_x_offset, point.y - m_y_offset, point.z, "")>>
            /\ UNCHANGED <<m_to_lift, assert_ok>>
    /\ m_is_current_pos_clear' = TRUE
    /\ m_pos'.z <= ZLimit
    /\ UNCHANGED <<m_to_lift_type, m_E, z_hop, use_relative_e_distances, honored_lift,
                   bedVars, extVars>>

----------------------------------------------------------------------------
(* GCodeWriter: extrusion moves. *)

\* Extruder::extrude: the accumulated E after extruding dE (E restarts from 0 on
\* every move when extrusion distances are relative).
Extruder_extrude(dE) == (IF use_relative_e_distances THEN 0 ELSE m_E) + dE

\* GCodeWriter::extrude_to_xy (std::numeric_limits<double>::epsilon() is below the grid:
\* |dE| <= epsilon exactly when dE = 0)
extrude_to_xy(point, dE, force_no_extrusion) ==
    LET no_extrusion == force_no_extrusion \/ Abs(dE) <= 0
        E == IF no_extrusion THEN m_E ELSE Extruder_extrude(dE)
    IN  /\ call' = ExtrudeCall("extrude_to_xy", 0, dE, force_no_extrusion)
        /\ m_pos' = [m_pos EXCEPT !.x = point[1], !.y = point[2]]
        /\ m_E' = E
        /\ m_E' <= MaxE
        /\ out' = <<G1_XY_E(point[1] - m_x_offset, point[2] - m_y_offset,
                            IF no_extrusion THEN {} ELSE {E}, "")>>
        /\ UNCHANGED <<m_lifted, m_to_lift, m_to_lift_type, m_is_current_pos_clear, z_hop,
                       use_relative_e_distances, assert_ok, honored_lift, bedVars, extVars>>

\* GCodeWriter::extrude_arc_to_xy
extrude_arc_to_xy(point, center_offset, dE, is_ccw, force_no_extrusion) ==
    LET E == IF force_no_extrusion THEN m_E ELSE Extruder_extrude(dE)
    IN  /\ call' = ExtrudeCall("extrude_arc_to_xy", 0, dE, force_no_extrusion)
        /\ m_pos' = [m_pos EXCEPT !.x = point[1], !.y = point[2]]
        /\ m_E' = E
        /\ m_E' <= MaxE
        /\ out' = <<G2G3_XY_IJ_E(is_ccw, point[1] - m_x_offset, point[2] - m_y_offset,
                                 center_offset, IF force_no_extrusion THEN {} ELSE {E}, "")>>
        /\ UNCHANGED <<m_lifted, m_to_lift, m_to_lift_type, m_is_current_pos_clear, z_hop,
                       use_relative_e_distances, assert_ok, honored_lift, bedVars, extVars>>

\* GCodeWriter::extrude_to_xyz: "m_lifted = 0", whatever was lifted.
lifted_after_extrude_kept(lifted) == lifted
lifted_after_extrude(lifted) == 0

\* GCodeWriter::extrude_to_xyz
extrude_to_xyz(point, dE, force_no_extrusion) ==
    LET E == IF force_no_extrusion THEN m_E ELSE Extruder_extrude(dE)
    IN  /\ call' = ExtrudeCall("extrude_to_xyz", point.z, dE, force_no_extrusion)
        /\ m_pos' = point
        /\ m_lifted' = lifted_after_extrude(m_lifted)
        /\ m_E' = E
        /\ m_E' <= MaxE
        /\ out' = <<G1_XYZ_E(point.x - m_x_offset, point.y - m_y_offset, point.z,
                             IF force_no_extrusion THEN {} ELSE {E}, "")>>
        /\ UNCHANGED <<m_to_lift, m_to_lift_type, m_is_current_pos_clear, z_hop,
                       use_relative_e_distances, assert_ok, honored_lift, bedVars, extVars>>

----------------------------------------------------------------------------
(* GCodeWriter: bed temperature. *)

BedCommand(code, temperature, comment) ==
    [cmd |-> code, S |-> temperature, comment |-> comment]

\* GCodeWriter::set_bed_temperature: the deduplication test.
bed_same_as_last_temp_only(temperature, wait) == temperature = m_last_bed_temperature
bed_same_as_last_never(temperature, wait) == FALSE
bed_same_as_last_flag_too(temperature, wait) ==
    temperature = m_last_bed_temperature /\ wait = m_last_bed_temperature_reached
bed_same_as_last(temperature, wait) ==
    temperature = m_last_bed_temperature /\ (~wait \/ m_last_bed_temperature_reached)

\* GCodeWriter::set_bed_temperature
set_bed_temperature(temperature, wait) ==
    /\ call' = [op |-> "set_bed_temperature", temperature |-> temperature, wait |-> wait]
    /\ IF bed_same_as_last(temperature, wait)
       THEN /\ out' = NoLine
            /\ UNCHANGED bedVars
       ELSE LET line == IF wait
                        THEN BedCommand("M190", temperature,
                                        "set bed temperature and wait for it to be reached")
                        ELSE BedCommand("M140", temperature, "set bed temperature")
            IN  /\ m_last_bed_temperature' = temperature
                /\ m_last_bed_temperature_reached' = wait
                /\ out' = <<line>>
                /\ Len(bed_issued) < MaxIssued
                /\ bed_issued' = Append(bed_issued, [temperature |-> temperature, wait |-> wait])
    /\ UNCHANGED <<liftVars, extVars>>

----------------------------------------------------------------------------
(* GCodeWriter: configuration, acceleration and jerk. *)

\* The G-code flavors GCodeWriter.cpp distinguishes.
Flavors == {"gcfMarlinLegacy", "gcfMarlinFirmware", "gcfKlipper", "gcfRepRapFirmware",
            "gcfRepRapSprinter", "gcfRepetier", "gcfTeacup", "gcfMakerWare",
            "gcfSailfish", "gcfMach3", "gcfMachinekit", "gcfSmoothie"}

\* The configured machine limits tried (0 = none), and the values requested.
Limits == 0 .. MaxLimit
Requests == 0 .. MaxLimit + 1

Min(a, b) == IF a < b THEN a ELSE b

\* GCodeWriter::apply_print_config: the flavors whose machine limits are used.
use_mach_limits(flavor) ==
    flavor \in {"gcfMarlinLegacy", "gcfMarlinFirmware", "gcfKlipper", "gcfRepRapFirmware"}

\* GCodeWriter::apply_print_config, for the flavor and the machine limits of a print config.
apply_print_config(flavor, machine_max_acceleration_extruding, machine_max_jerk_x, machine_max_jerk_y) ==
    /\ gcode_flavor = flavor
    /\ m_max_acceleration =
           (IF use_mach_limits(flavor) THEN machine_max_acceleration_extruding ELSE 0)
    /\ m_max_jerk =
           (IF use_mach_limits(flavor) THEN Min(machine_max_jerk_x, machine_max_jerk_y) ELSE 0)

\* A command line carrying one value on the parameters named; the value is the
\* fraction num / den.
ValueLine(cmd, params, num, den, comment) ==
    [cmd |-> cmd, params |-> params, num |-> num, den |-> den, comment |-> comment]
\* The value the lines of a returned string carry is at most max.
ValuesAtMost(lines, max) == \A i \in 1 .. Len(lines) : lines[i].num <= max * lines[i].den

\* set_acceleration, set_jerk_xy: the clamp of the requested value to the maximum.
clamp_to_max_never(value, max) == value
clamp_to_max(value, max) == IF max > 0 /\ value > max THEN max ELSE value

\* set_acceleration, set_jerk_xy: the test that makes the call a no-op.
nothing_to_set_zero_only(value, last) == value = 0
nothing_to_set(value, last) == value = 0 \/ value = last

\* GCodeWriter::set_acceleration: the text emitted for an acceleration.
acceleration_gcode(acceleration) ==
    CASE gcode_flavor = "gcfRepetier" ->
             << ValueLine("M201", "X Y", acceleration, 1, "adjust acceleration"),
                ValueLine("M202", "X Y", acceleration, 1, "adjust acceleration") >>
      [] gcode_flavor \in {"gcfRepRapFirmware", "gcfMarlinFirmware"} ->
             << ValueLine("M204", "P", acceleration, 1, "adjust acceleration") >>
      [] gcode_flavor = "gcfKlipper" /\ adjust_accel_to_decel ->
             << ValueLine("SET_VELOCITY_LIMIT", "ACCEL_TO_DECEL", acceleration, 2,
                          "adjust max_accel_to_decel to 0.5 of new accel value"),
                ValueLine("M204", "S", acceleration, 1, "adjust acceleration") >>
      [] OTHER ->
             << ValueLine("M204", "S", acceleration, 1, "adjust acceleration") >>

\* GCodeWriter::set_acceleration
set_acceleration(requested) ==
    LET acceleration == clamp_to_max(requested, m_max_acceleration)
    IN  /\ call' = [op |-> "set_acceleration", value |-> requested]
        /\ IF nothing_to_set(acceleration, m_last_acceleration)
           THEN /\ out' = NoLine
                /\ UNCHANGED <<m_last_acceleration, accel_emitted>>
           ELSE /\ m_last_acceleration' = acceleration
                /\ out' = acceleration_gcode(acceleration)
                /\ accel_emitted' = {acceleration}
        /\ UNCHANGED <<m_max_acceleration, m_max_jerk, m_last_jerk, jerk_emitted>>
        /\ UNCHANGED <<liftVars, bedVars, cfgVars, guiVars, toolVars, vaseVars>>

\* GCodeWriter::set_jerk_xy
set_jerk_xy(requested) ==
    LET jerk == clamp_to_max(requested, m_max_jerk)
    IN  /\ call' = [op |-> "set_jerk_xy", value |-> requested]
        /\ IF nothing_to_set(jerk, m_last_jerk)
           THEN /\ out' = NoLine
                /\ UNCHANGED <<m_last_jerk, jerk_emitted>>
           ELSE /\ m_last_jerk' = jerk
                /\ out' = IF gcode_flavor = "gcfKlipper"
                          THEN << ValueLine("SET_VELOCITY_LIMIT", "SQUARE_CORNER_VELOCITY",
                                            jerk, 1, "adjust jerk") >>
                          ELSE << ValueLine("M205", "X Y", jerk, 1, "adjust jerk") >>
                /\ jerk_emitted' = {jerk}
        /\ UNCHANGED <<m_max_acceleration, m_max_jerk, m_last_acceleration, accel_emitted>>
        /\ UNCHANGED <<liftVars, bedVars, cfgVars, guiVars, toolVars, vaseVars>>

----------------------------------------------------------------------------
(* GCodeWriter: extruders, tool change and retraction. *)

\* The extruder ids a print may configure and a tool change may name.
ExtruderIds == {0, 1}
\* Extruder *m_extruder: no extruder selected yet, and m_extruders.end().
nullptr == -1
end == 1 + CHOOSE id \in ExtruderIds : \A other \in ExtruderIds : other <= id

\* One flavor for each branch that tool change, reset_e and retraction distinguish.
ToolFlavors == {"gcfMarlinFirmware", "gcfMach3", "gcfMakerWare", "gcfSailfish",
                "gcfMachinekit"}
\* retraction_length and retract_length_toolchange configured (mm).
RetractLengths == {0, 2}
\* retract_before_wipe, in percent; the retract_restart_extra values are the default 0.
retract_before_wipe == 50
retract_restart_extra == 0
retract_restart_extra_toolchange == 0

\* Extruder::Extruder: a new extruder.
Extruder == [E |-> 0, retracted |-> 0, restart_extra |-> 0]

\* GCodeWriter::set_extruders, for a non-empty set of ids.
set_extruders(extruder_ids) ==
    /\ m_extruders = [id \in extruder_ids |-> Extruder]
    /\ multiple_extruders = (\E id \in extruder_ids : id > 0)

\* Slic3r::lower_bound_by_predicate over the sorted m_extruders: the first extruder
\* whose id is not below extruder_id, or end.
lower_bound(extruder_id) ==
    LET notBelow == {id \in DOMAIN m_extruders : ~(id < extruder_id)}
    IN  IF notBelow = {} THEN end
        ELSE CHOOSE id \in notBelow : \A other \in notBelow : id <= other

\* A command line without axis fields: a command word with its parameter.
Command(cmd, comment) == Line(cmd, {}, {}, {}, {}, {}, "", comment)
\* GCodeG1Formatter: emit_e, emit_f(speed * 60), emit_comment
G1_E_F(E, speed, comment) == Line("G1", {}, {}, {}, {}, {E}, speed, comment)

\* GCodeWriter::toolchange_prefix, followed by the extruder id.
toolchange_prefix(extruder_id) ==
    CASE gcode_flavor = "gcfMakerWare" -> <<"M135 T", extruder_id>>
      [] gcode_flavor = "gcfSailfish" -> <<"M108 T", extruder_id>>
      [] OTHER -> <<"T", extruder_id>>

\* GCodeWriter::reset_e: the flavors for which it does nothing.
reset_e_skipped == gcode_flavor \in {"gcfMach3", "gcfMakerWare", "gcfSailfish"}

\* GCodeWriter::reset_e on the extruder ptr points to: the extruders and the text after
\* it.  (For ptr = end the extruder read and written lies outside the vector.)
reset_e(ptr, extruders, force) ==
    LET inside == ptr \in DOMAIN extruders
    IN  IF reset_e_skipped
        THEN [extruders |-> extruders, gcode |-> NoLine]
        ELSE IF ptr # nullptr /\ inside /\ extruders[ptr].E = 0 /\ ~force
        THEN [extruders |-> extruders, gcode |-> NoLine]
        ELSE [extruders |-> IF inside THEN [extruders EXCEPT ![ptr].E = 0] ELSE extruders,
              gcode |-> IF ~use_relative_e_distances
                        THEN <<Command("G92 E0", "reset extrusion distance")>>
                        ELSE NoLine]

\* A call that dereferences m_extruder while it points to no extruder (nullptr, end):
\* the process crashes, or goes on with the extruders untouched.
InvalidExtruder == m_extruder \notin DOMAIN m_extruders

\* toolchange: whether the tool-select command is emitted.
emits_toolchange_always == TRUE
emits_toolchange == multiple_extruders

\* toolchange: the force argument of its reset_e call.
toolchange_reset_unforced == FALSE
toolchange_reset_force == TRUE

\* GCodeWriter::toolchange
toolchange(extruder_id) ==
    LET it_extruder == lower_bound(extruder_id)
        found == it_extruder # end /\ it_extruder = extruder_id
        reset == reset_e(it_extruder, m_extruders, toolchange_reset_force)
    IN  /\ ~aborted
        /\ call' = [op |-> "toolchange", id |-> extruder_id,
                    E_before |-> IF it_extruder = end THEN {}
                                 ELSE {m_extruders[it_extruder].E}]
        /\ IF ~found /\ ~NDEBUG
           THEN /\ aborted' = TRUE
                /\ out' = NoLine
                /\ UNCHANGED <<m_extruders, m_extruder>>
           ELSE /\ m_extruder' = it_extruder
                /\ IF emits_toolchange
                   THEN /\ m_extruders' = reset.extruders
                        /\ out' = <<Command(toolchange_prefix(extruder_id), "change extruder")>>
                                   \o reset.gcode
                        /\ aborted' \in (IF it_extruder = end /\ ~reset_e_skipped
                                          THEN BOOLEAN ELSE {FALSE})
                   ELSE /\ out' = NoLine
                        /\ UNCHANGED <<m_extruders, aborted>>
        /\ UNCHANGED <<multiple_extruders, NDEBUG>>
        /\ UNCHANGED <<liftVars, bedVars, cfgVars, guiVars, accelVars, vaseVars>>

\* Extruder *m_extruder pointing into storage that m_extruders no longer holds.
dangling == -2
\* The position in the vector of the extruder ptr points to.
slot(ptr, extruders) == Cardinality({id \in DOMAIN extruders : id < ptr})
\* GCodeWriter::set_extruders leaves m_extruder as it is while clear(), reserve() and
\* emplace_back() replace the elements: where the storage is reused the pointer now
\* addresses the new extruder in the same position, otherwise it dangles.
pointer_after_clear(ptr, extruders, extruder_ids) ==
    IF ptr = nullptr THEN {nullptr}
    ELSE IF ptr = dangling THEN {dangling} \cup extruder_ids
    ELSE {dangling}
         \cup {id \in extruder_ids :
                  Cardinality({other \in extruder_ids : other < id}) = slot(ptr, extruders)}

\* GCodeWriter::set_extruders on a writer in use, for a non-empty set of ids.
set_extruders_again(extruder_ids) ==
    /\ ~aborted
    /\ call' = [op |-> "set_extruders", ids |-> extruder_ids]
    /\ m_extruders' = [id \in extruder_ids |-> Extruder]
    /\ multiple_extruders' = (\E id \in extruder_ids : id > 0)
    /\ m_extruder' \in pointer_after_clear(m_extruder, m_extruders, extruder_ids)
    /\ out' = NoLine
    /\ UNCHANGED <<NDEBUG, aborted>>
    /\ UNCHANGED <<liftVars, bedVars, cfgVars, guiVars, accelVars, vaseVars>>

Max(a, b) == IF a > b THEN a ELSE b

\* Extruder::retract: the extruder after retracting up to length, and the delta it reports.
Extruder_retract(e, length, restart_extra) ==
    LET E == IF use_relative_e_distances THEN 0 ELSE e.E
        to_retract == Max(0, length - e.retracted)
    IN  [dE |-> to_retract,
         extruder |-> IF to_retract > 0
                      THEN [E |-> E - to_retract, retracted |-> e.retracted + to_retract,
                            restart_extra |-> restart_extra]
                      ELSE [e EXCEPT !.E = E]]

\* Extruder::unretract: the extruder after restoring what was retracted, and the delta.
Extruder_unretract(e) ==
    LET E == IF use_relative_e_distances THEN 0 ELSE e.E
        dE == e.retracted + e.restart_extra
    IN  [dE |-> dE, extruder |-> [E |-> E + dE, retracted |-> 0, restart_extra |-> 0]]

\* _retract: the length the extruder is asked to retract.
retract_length_configured(length) == length
retract_length(length) == IF use_firmware_retraction THEN 1 ELSE length

\* _retract, unretract: whether the firmware's own code is emitted for a non-zero delta.
firmware_code == use_firmware_retraction

\* The outcome of a call made while m_extruder points to no extruder.
invalid_extruder_call ==
    /\ aborted' \in BOOLEAN
    /\ out' = NoLine
    /\ UNCHANGED <<m_extruders, m_extruder, multiple_extruders, NDEBUG>>

\* GCodeWriter::_retract
_retract(length, restart_extra, comment) ==
    IF InvalidExtruder THEN invalid_extruder_call
    ELSE
    LET r == Extruder_retract(m_extruders[m_extruder], retract_length(length), restart_extra)
        gcode == IF r.dE # 0
                 THEN IF firmware_code
                      THEN <<Command(IF gcode_flavor = "gcfMachinekit" THEN "G22" ELSE "G10",
                                     "retract")>>
                      ELSE <<G1_E_F(r.extruder.E, "retract_speed", comment)>>
                 ELSE NoLine
    IN  /\ m_extruders' = [m_extruders EXCEPT ![m_extruder] = r.extruder]
        /\ out' = gcode \o (IF gcode_flavor = "gcfMakerWare"
                             THEN <<Command("M103", "extruder off")>> ELSE NoLine)
        /\ UNCHANGED <<m_extruder, multiple_extruders, NDEBUG, aborted>>

\* The factor of retract and retract_for_toolchange applied to a configured length.
Factor(before_wipe, length) ==
    IF before_wipe THEN (retract_before_wipe * length) \div 100 ELSE length

\* GCodeWriter::retract
retract(before_wipe) ==
    /\ ~aborted
    /\ call' = [op |-> "retract", before_wipe |-> before_wipe]
    /\ _retract(Factor(before_wipe, retraction_length),
                Factor(before_wipe, retract_restart_extra), "retract")
    /\ UNCHANGED <<liftVars, bedVars, cfgVars, guiVars, accelVars, vaseVars>>

\* GCodeWriter::retract_for_toolchange
retract_for_toolchange(before_wipe) ==
    /\ ~aborted
    /\ call' = [op |-> "retract_for_toolchange", before_wipe |-> before_wipe]
    /\ _retract(Factor(before_wipe, retract_length_toolchange),
                Factor(before_wipe, retract_restart_extra_toolchange),
                "retract for toolchange")
    /\ UNCHANGED <<liftVars, bedVars, cfgVars, guiVars, accelVars, vaseVars>>

\* GCodeWriter::unretract
unretract ==
    /\ ~aborted
    /\ call' = [op |-> "unretract", before_wipe |-> FALSE]
    /\ IF InvalidExtruder THEN invalid_extruder_call
       ELSE
       LET r == Extruder_unretract(m_extruders[m_extruder])
           unretracted == [m_extruders EXCEPT ![m_extruder] = r.extruder]
           reset == reset_e(m_extruder, unretracted, FALSE)
           on == IF gcode_flavor = "gcfMakerWare"
                 THEN <<Command("M101", "extruder on")>> ELSE NoLine
       IN  /\ m_extruders' = IF r.dE # 0 /\ firmware_code THEN reset.extruders
                             ELSE unretracted
           /\ out' = on \o
                     (IF r.dE # 0
                      THEN IF firmware_code
                           THEN <<Command(IF gcode_flavor = "gcfMachinekit"
                                          THEN "G23" ELSE "G11", "unretract")>>
                                \o reset.gcode
                           ELSE <<G1_E_F(r.extruder.E, "deretract_speed", " ; unretract")>>
                      ELSE NoLine)
           /\ UNCHANGED <<m_extruder, multiple_extruders, NDEBUG, aborted>>
    /\ UNCHANGED <<liftVars, bedVars, cfgVars, guiVars, accelVars, vaseVars>>

----------------------------------------------------------------------------
(* GCodeFormatter: the numeric formatter. *)

\* A text is a sequence of characters.
DigitChars == <<"0", "1", "2", "3", "4", "5", "6", "7", "8", "9">>
\* assert(digits <= 9)
MaxDigits == 9
\* The axis letters tried.
Axes == {"X", "E"}
\* The values v tried for digits decimals, in units of 10^-(digits + 1): mantissas up
\* to MaxMantissa of either sign at every magnitude up to 10^6.
Magnitudes == {1, 10, 100, 1000, 10000, 100000, 1000000}
Values == {s * m * k : s \in {-1, 1}, m \in 0 .. MaxMantissa, k \in Magnitudes}

\* int64_t(std::round(v * pow_10[digits])): rounding half away from zero.
round(v) == IF v < 0 THEN -((5 - v) \div 10) ELSE (v + 5) \div 10

\* std::to_chars of a non-negative integer.
RECURSIVE to_chars_digits(_)
to_chars_digits(n) ==
    IF n < 10 THEN <<DigitChars[n + 1]>>
    ELSE to_chars_digits(n \div 10) \o <<DigitChars[(n % 10) + 1]>>
\* std::to_chars(ptr, buf_end - 1, v_int)
to_chars(v_int) ==
    IF v_int < 0 THEN <<"-">> \o to_chars_digits(-v_int) ELSE to_chars_digits(v_int)

\* memset(ptr - writen_digits, '0', remaining_digits)
Zeros(n) == [i \in 1 .. n |-> "0"]

\* emit_axis: the characters of the sign, not counted in writen_digits.
sign_chars_counted(v_int) == 0
sign_chars(v_int) == IF v_int < 0 THEN 1 ELSE 0

\* emit_axis: the loop that steps ptr back over at most digits trailing '0' characters.
RECURSIVE strip_zeros(_, _, _)
strip_zeros(text, ptr, i) ==
    IF i = 0 \/ text[ptr] # "0" THEN ptr ELSE strip_zeros(text, ptr - 1, i - 1)

\* GCodeFormatter::emit_axis: the characters written after the axis letter for v_int.
\* Positions are counted from base_ptr = 1; ptr = 0 is the axis letter before it.
axis_text(v_int, digits) ==
    LET chars == to_chars(v_int)
        sign == sign_chars(v_int)
        writen_digits == Len(chars) - sign
        remaining_digits == IF writen_digits < digits THEN digits - writen_digits ELSE 0
        padded == SubSeq(chars, 1, sign) \o Zeros(remaining_digits)
                  \o SubSeq(chars, sign + 1, Len(chars))
        n == Len(padded)
        pointed == SubSeq(padded, 1, n - digits) \o <<".">>
                   \o SubSeq(padded, n - digits + 1, n)
        stripped == strip_zeros(pointed, n + 1, digits)
        ptr == IF pointed[stripped] = "." THEN stripped - 1 ELSE stripped
    IN  IF ptr = 0 \/ pointed[ptr] = "-"
        THEN SubSeq(pointed, 1, ptr) \o <<"0">>
        ELSE SubSeq(pointed, 1, ptr)

\* GCodeFormatter::emit_axis: appends ' ', the axis letter and the value to the buffer;
\* out is the text appended.
emit_axis(axis, v, digits) ==
    /\ call' = [op |-> "emit_axis", axis |-> axis, v |-> v, digits |-> digits]
    /\ out' = <<" ", axis>> \o axis_text(round(v), digits)
    /\ UNCHANGED <<liftVars, bedVars, extVars>>

----------------------------------------------------------------------------
(* SpiralVase: the reader it feeds and the layers it is given. *)

\* In the layers X and Y are in units of 0.1 mm and Z and E in units of 0.01 mm; a float
\* result is rounded toward zero to that grid.

\* The value of a field that is present.
Val(field) == CHOOSE v \in field : TRUE
\* A line of a layer: a command word with the axis fields given.
GLine(cmd, X, Y, Z, E) == Line(cmd, X, Y, Z, {}, E, "", "")

\* GCodeReader: the position is reset in E before a line with E is handed to the callback
\* when extrusion distances are relative.
reader_before(r, line) ==
    IF line.E # {} /\ use_relative_e_distances THEN [r EXCEPT !.e = 0] ELSE r
\* GCodeReader::update_coordinates: after the callback the axes a move names are taken over.
update_coordinates(r, line) ==
    IF line.cmd \in {"G0", "G1", "G92"}
    THEN [x |-> IF line.X # {} THEN Val(line.X) ELSE r.x,
          y |-> IF line.Y # {} THEN Val(line.Y) ELSE r.y,
          z |-> IF line.Z # {} THEN Val(line.Z) ELSE r.z,
          e |-> IF line.E # {} THEN Val(line.E) ELSE r.e]
    ELSE r
\* GCodeReader::parse_buffer without a callback: the reader after the lines of gcode.
RECURSIVE parse_buffer(_, _, _)
parse_buffer(r, gcode, i) ==
    IF i > Len(gcode) THEN r
    ELSE parse_buffer(update_coordinates(reader_before(r, gcode[i]), gcode[i]), gcode, i + 1)

\* GCodeLine::dist_XY, dist_Z, dist_E, extruding, new_Z, x, y, e
dist_XY(line, r) ==
    Norm(IF line.X # {} THEN Val(line.X) - r.x ELSE 0,
         IF line.Y # {} THEN Val(line.Y) - r.y ELSE 0)
dist_Z(line, r) == IF line.Z # {} THEN Val(line.Z) - r.z ELSE 0
dist_E(line, r) == IF line.E # {} THEN Val(line.E) - r.e ELSE 0
extruding(line, r) == line.cmd \in {"G1", "G2", "G3"} /\ dist_E(line, r) > 0
new_Z(line, r) == IF line.Z # {} THEN Val(line.Z) ELSE r.z
line_x(line) == IF line.X # {} THEN Val(line.X) ELSE 0
line_y(line) == IF line.Y # {} THEN Val(line.Y) ELSE 0
line_e(line) == IF line.E # {} THEN Val(line.E) ELSE 0

\* The layers: layer n (at Z = n * LayerHeight) is a square loop of side LoopSide whose
\* corner is shifted by shift, after the Z move and a travel to the corner, followed by a
\* retraction and a fan command; or a layer without any extrusion.
LayerHeight == 20
LoopSide == 100
ExtrusionPerSide == 8
\* Shifts of the loop against the origin: none, within and beyond the smoothing distance.
Shifts == {0, 4, 20}
\* The E of the k-th extruding move of layer n (absolute distances accumulate).
LayerE(n, k) ==
    IF use_relative_e_distances THEN ExtrusionPerSide
    ELSE ((n - 1) * 4 + k) * ExtrusionPerSide
\* The E of the retraction that ends layer n.
RetractE(n) == IF use_relative_e_distances THEN -2 ELSE LayerE(n, 4) - 2
LoopLayer(n, shift) ==
    << GLine("G1", {}, {}, {n * LayerHeight}, {}),
       GLine("G1", {shift}, {shift}, {}, {}),
       GLine("G1", {shift + LoopSide}, {shift}, {}, {LayerE(n, 1)}),
       GLine("G1", {shift + LoopSide}, {shift + LoopSide}, {}, {LayerE(n, 2)}),
       GLine("G1", {shift}, {shift + LoopSide}, {}, {LayerE(n, 3)}),
       GLine("G1", {shift}, {shift}, {}, {LayerE(n, 4)}),
       GLine("G1", {}, {}, {}, {RetractE(n)}),
       GLine("M106", {}, {}, {}, {}) >>
EmptyLayer(n) ==
    << GLine("G1", {}, {}, {n * LayerHeight}, {}),
       GLine("G1", {LoopSide}, {LoopSide}, {}, {}),
       GLine("M106", {}, {}, {}, {}) >>
\* The layers that may follow the ones the reader has seen, up to layer MaxLayers.
NextLayers ==
    LET n == (m_reader.z \div LayerHeight) + 1
    IN  IF n > MaxLayers THEN {}
        ELSE {LoopLayer(n, shift) : shift \in Shifts} \cup {EmptyLayer(n)}

----------------------------------------------------------------------------
(* SpiralVase: process_layer. *)

\* value * num / den in float arithmetic.
Scale(value, num, den) == Div(value * num, den)
SpiralPoint(x, y) == [x |-> x, y |-> y]
\* float max_xy_dist_for_smoothing = 0.8
max_xy_dist_for_smoothing == 8

\* float distance(SpiralPoint a, SpiralPoint b)
distance(a, b) == Norm(a.x - b.x, a.y - b.y)
\* float dot(SpiralPoint a, SpiralPoint b)
dot(a, b) == a.x * b.x + a.y * b.y

\* nearest_point_on_line: the point of segment ab closest to c and its distance; for
\* a = b the quotient t is not a number, and neither are the point and the distance.
nearest_point_on_line(c, a, b) ==
    LET ab == SpiralPoint(b.x - a.x, b.y - a.y)
        ca == SpiralPoint(c.x - a.x, c.y - a.y)
        den == dot(ab, ab)
        num == IF dot(ca, ab) > den THEN den ELSE IF dot(ca, ab) < 0 THEN 0 ELSE dot(ca, ab)
        closest == SpiralPoint(a.x + Scale(ab.x, num, den), a.y + Scale(ab.y, num, den))
    IN  IF den = 0 THEN [nan |-> TRUE, closest |-> a, dist |-> 0]
        ELSE [nan |-> FALSE, closest |-> closest, dist |-> distance(c, closest)]

\* nearest_point_on_polygon: the loop over the segments from segment i on.
RECURSIVE nearest_from(_, _, _, _)
nearest_from(p, points, i, best) ==
    IF i > Len(points) - 1 THEN best
    ELSE LET current == nearest_point_on_line(p, points[i], points[i + 1])
         IN  nearest_from(p, points, i + 1,
                          IF ~current.nan /\ (~best.found \/ current.dist < best.dist)
                          THEN [found |-> TRUE, closest |-> current.closest,
                                dist |-> current.dist]
                          ELSE best)
\* nearest_point_on_polygon
nearest_point_on_polygon(p, points) ==
    IF Len(points) < 2 THEN [found |-> FALSE, closest |-> SpiralPoint(0, 0), dist |-> 0]
    ELSE nearest_from(p, points, 1, [found |-> FALSE, closest |-> SpiralPoint(0, 0),
                                     dist |-> 0])

\* process_layer, first parse_buffer (on a clone of the reader): the total XY length of
\* the extruding moves, the Z climbed and the Z of the first Z move.
RECURSIVE prescan(_, _, _, _)
prescan(r, gcode, i, acc) ==
    IF i > Len(gcode) THEN acc
    ELSE LET line == gcode[i]
             rb == reader_before(r, line)
             next == IF line.cmd # "G1" THEN acc
                     ELSE IF extruding(line, rb)
                     THEN [acc EXCEPT !.total_layer_length = @ + dist_XY(line, rb)]
                     ELSE IF line.Z # {}
                     THEN [acc EXCEPT !.layer_height = @ + dist_Z(line, rb),
                                      !.z = IF acc.set_z THEN @ ELSE new_Z(line, rb),
                                      !.set_z = TRUE]
                     ELSE acc
         IN  prescan(update_coordinates(rb, line), gcode, i + 1, next)

\* process_layer: the Z the layer starts from, "z -= layer_height".
initial_z_naive(scanned) == scanned.z
initial_z(scanned) == scanned.z - scanned.layer_height

\* process_layer, callback: the Z of an extruding move, "z + factor * layer_height".
ramp_z_flat(z, layer_height, len, total) == z + layer_height
ramp_z_down(z, layer_height, len, total) == z + layer_height - Scale(layer_height, len, total)
ramp_z(z, layer_height, len, total) == z + Scale(layer_height, len, total)

\* process_layer, callback: the E of an extruding move after "if (transition_in)".
ramp_e_in_never(e, len, total, transition_in) == e
ramp_e_in(e, len, total, transition_in) == IF transition_in THEN Scale(e, len, total) ELSE e

\* process_layer, callback: the E of the cloned line, "line.e() * (1 - factor)".
ramp_e_out_up(e, len, total) == Scale(e, len, total)
ramp_e_out(e, len, total) == Scale(e, total - len, total)

\* process_layer, callback: "if (found && dist < max_xy_dist_for_smoothing)".
close_enough_found(found, dist) == found
close_enough(found, dist) == found /\ dist < max_xy_dist_for_smoothing

\* process_layer, callback: "else if (transition_out)" after "if (transition_in)", whether
\* the extruding move is cloned into transition_gcode.
clones_on_last(transition_in, transition_out) == transition_out
clones(transition_in, transition_out) == ~transition_in /\ transition_out

\* process_layer, callback: a horizontal move that does not extrude leaves no line.
skip_travel_copied(st, line) == [st EXCEPT !.new_gcode = Append(@, line)]
skip_travel(st, line) == st

\* process_layer, the callback of the second parse_buffer on one line: st holds new_gcode,
\* transition_gcode, len, current_layer and last_point; ctx holds what the callback
\* captures by value.
rewrite_line(line, rb, st, ctx) ==
    IF line.cmd = "G1" /\ line.Z # {}
    THEN [st EXCEPT !.new_gcode = Append(@, [line EXCEPT !.Z = {ctx.z}])]
    ELSE IF line.cmd = "G1" /\ dist_XY(line, rb) > 0
    THEN IF ~extruding(line, rb) THEN skip_travel(st, line)
         ELSE
         LET dist == dist_XY(line, rb)
             len == st.len + dist
             total == ctx.total_layer_length
             ramped == IF ctx.transition_in
                       THEN [line EXCEPT
                                !.E = {ramp_e_in(line_e(line), len, total, ctx.transition_in)}]
                       ELSE line
             transitionLine == [line EXCEPT !.E = {ramp_e_out(line_e(line), len, total)}]
             raised == [ramped EXCEPT !.Z = {ramp_z(ctx.z, ctx.layer_height, len, total)}]
             p == SpiralPoint(line_x(raised), line_y(raised))
             with_previous == ctx.smooth_spiral /\ ctx.previous_layer # {}
             nearest == IF with_previous
                        THEN nearest_point_on_polygon(p, Val(ctx.previous_layer))
                        ELSE [found |-> FALSE, closest |-> p, dist |-> 0]
             smoothed == with_previous /\ close_enough(nearest.found, nearest.dist)
             target == SpiralPoint(
                           Scale(nearest.closest.x, total - len, total) + Scale(p.x, len, total),
                           Scale(nearest.closest.y, total - len, total) + Scale(p.y, len, total))
             final == IF smoothed
                      THEN [raised EXCEPT
                               !.X = {target.x}, !.Y = {target.y},
                               !.E = {Div(line_e(raised) * distance(st.last_point, target),
                                          dist)}]
                      ELSE raised
         IN  [st EXCEPT
                !.len = len,
                !.transition_gcode = IF clones(ctx.transition_in, ctx.transition_out)
                                     THEN Append(@, transitionLine) ELSE @,
                !.current_layer = IF ctx.smooth_spiral THEN Append(@, p) ELSE @,
                !.last_point = IF with_previous THEN (IF smoothed THEN target ELSE p) ELSE @,
                !.new_gcode = Append(@, final)]
    ELSE [st EXCEPT !.new_gcode = Append(@, line),
                    !.transition_gcode = IF ctx.transition_out THEN Append(@, line) ELSE @]

\* process_layer, second parse_buffer (on m_reader itself).
RECURSIVE rewrite(_, _, _, _, _)
rewrite(r, gcode, i, st, ctx) ==
    IF i > Len(gcode) THEN [st EXCEPT !.r = r]
    ELSE LET rb == reader_before(r, gcode[i])
         IN  rewrite(update_coordinates(rb, gcode[i]), gcode, i + 1,
                     rewrite_line(gcode[i], rb, st, ctx), ctx)

\* process_layer: "new std::vector<SpiralPoint>()", the vectors after it; the new vector
\* is the last of them.
new_vector(allocated) == Append(allocated, 0)
\* process_layer: "delete m_previous_layer", the vectors after it; deleting NULL does
\* nothing.
delete_vector_never(allocated, at) == allocated
delete_vector(allocated, at) ==
    IF at = 0 THEN allocated ELSE [allocated EXCEPT ![at] = @ + 1]
\* process_layer: "m_previous_layer = current_layer", the vector retained.
retained_previous(current_layer, previous_layer) == previous_layer
retained(current_layer, previous_layer) == current_layer
\* process_layer: previous_layer is read at "last_point = previous_layer != NULL && ..."
\* and by nearest_point_on_polygon; whether what it points to was deleted before.
reads_deleted(allocated, at) == at # 0 /\ allocated[at] > 0

\* process_layer: whether the layer is only fed to the reader and returned as it is.
passes_through_never == FALSE
passes_through == ~m_enabled

\* SpiralVase::process_layer
process_layer(gcode, last_layer) ==
    /\ call' = [op |-> "process_layer", gcode |-> gcode, last_layer |-> last_layer]
    /\ IF passes_through
       THEN /\ m_reader' = parse_buffer(m_reader, gcode, 1)
            /\ out' = gcode
            /\ UNCHANGED <<m_previous_layer, vectors, m_previous_layer_at, read_deleted>>
       ELSE LET scanned == prescan(m_reader, gcode, 1,
                                   [total_layer_length |-> 0, layer_height |-> 0, z |-> 0,
                                    set_z |-> FALSE])
                previous_layer == m_previous_layer
                ctx == [z |-> initial_z(scanned),
                        total_layer_length |-> scanned.total_layer_length,
                        layer_height |-> scanned.layer_height,
                        smooth_spiral |-> m_smooth_spiral,
                        previous_layer |-> previous_layer,
                        transition_in |-> m_transition_layer /\ use_relative_e_distances,
                        transition_out |-> last_layer /\ use_relative_e_distances]
                last_point == IF previous_layer # {} /\ Len(Val(previous_layer)) > 0
                              THEN Val(previous_layer)[Len(Val(previous_layer))]
                              ELSE SpiralPoint(0, 0)
                st == rewrite(m_reader, gcode, 1,
                              [r |-> m_reader, new_gcode |-> <<>>, transition_gcode |-> <<>>,
                               len |-> 0, current_layer |-> <<>>, last_point |-> last_point],
                              ctx)
                current_layer_at == Len(new_vector(vectors))
            IN  /\ m_reader' = st.r
                /\ read_deleted' = (read_deleted \/ reads_deleted(vectors, m_previous_layer_at))
                /\ vectors' = delete_vector(new_vector(vectors), m_previous_layer_at)
                /\ m_previous_layer_at' = retained(current_layer_at, m_previous_layer_at)
                /\ m_previous_layer' = retained({st.current_layer}, previous_layer)
                /\ out' = st.new_gcode \o st.transition_gcode
    /\ UNCHANGED <<m_enabled, m_transition_layer, m_smooth_spiral>>
    /\ UNCHANGED <<liftVars, bedVars, cfgVars, guiVars, accelVars, toolVars>>

\* SpiralVase::enable
enable(en) ==
    /\ call' = [op |-> "enable", gcode |-> <<>>, last_layer |-> FALSE]
    /\ m_transition_layer' = (en /\ ~m_enabled)
    /\ m_enabled' = en
    /\ out' = NoLine
    /\ UNCHANGED <<m_smooth_spiral, m_previous_layer, m_reader>>
    /\ UNCHANGED <<vectors, m_previous_layer_at, read_deleted>>
    /\ UNCHANGED <<liftVars, bedVars, cfgVars, guiVars, accelVars, toolVars>>

----------------------------------------------------------------------------
(* PrintagoPanel: the commands of the web view.                            *)
(* A command event is a record [commandType, action, parameters]; the      *)
(* parameters are a function from keys to strings, a key being the tuple   *)
(* of the parts its text has between the dots (<<"axes", "X">> for         *)
(* "axes.X").  The text of the command, which the panel echoes in its      *)
(* messages, is told apart by <<commandType, action, printer id>>.         *)

\* The printers of devManager->get_my_machine_list(), by dev_id.
Printers == {"P1", "P2"}
CommandTypes ==
    {"status", "printer_control", "temperature_control", "movement_control", "bogus"}
\* The actions tried with a command type: its own and one that it does not have.
ActionsOf(commandType) ==
    CASE commandType = "status" -> {"get_machine_list", "get_status"}
      [] commandType = "printer_control" ->
             {"pause_print", "resume_print", "stop_print", "get_status", "start_print_bbl",
              "home"}
      [] commandType = "temperature_control" -> {"set_hotend", "set_bed", "jog"}
      [] commandType = "movement_control" -> {"jog", "home", "extrude", "bogus"}
      [] OTHER -> {"jog"}
\* A parameter set without keys.
NoParameters == <<>>
\* The printer a command names: none, a known one, an unknown one.
PrinterParameters == {NoParameters} \cup {<<"printer_id">> :> id : id \in Printers \cup {"P9"}}
\* What else a command carries: nothing, a url (empty, without a path, of a project, of a
\* model), a temperature (below and above the bed limit, not a number), an amount, axes
\* (valid ones, a name that is no axis, a value that is no number, an empty name).
\* They are tried with the commands that read them.
OtherParameters(commandType, action) ==
    {NoParameters}
    \cup (IF commandType = "printer_control" /\ action = "start_print_bbl"
          THEN {<<"url">> :> url : url \in {"", "h", "h/a.3mf", "h/a.stl"}} ELSE {})
    \cup (IF commandType = "temperature_control"
          THEN {<<"temperature">> :> t : t \in {"60", "120", "hot"}} ELSE {})
    \cup (IF commandType = "movement_control" /\ action = "extrude"
          THEN {<<"amount">> :> a : a \in {"5", "much"}} ELSE {})
    \cup (IF commandType = "movement_control" /\ action = "jog"
          THEN {<<"axes", "X">> :> "10",
                (<<"axes", "x">> :> "10") @@ (<<"axes", "Y">> :> "1.5"),
                <<"axes", "W">> :> "10",
                <<"axes", "X">> :> "far",
                <<"axes", "">> :> "10",
                (<<"axes", "X">> :> "10") @@ (<<"axes", "Z">> :> "far")}
          ELSE {})
EventsOf(t, a) ==
    {[commandType |-> t, action |-> a, parameters |-> id @@ other] :
        id \in PrinterParameters, other \in OtherParameters(t, a)}
CommandEvents == UNION {UNION {EventsOf(t, a) : a \in ActionsOf(t)} : t \in CommandTypes}

\* What a handler meets outside the panel: which of the printer commands it issues throws
\* (0 for none), printer->can_resume(), the axes at home, whether the nozzle is at
\* PRINTAGO_TEMP_THRESHOLD_ALLOW_E_CTRL or above, whether the download and the loading of
\* the file succeed.
Axes3 == {"X", "Y", "Z"}
\* The surroundings a command can meet: those it does not consult are left as they are
\* here.  A command consults them once it has found its printer.
Met(event) ==
    LET t == event.commandType
        a == event.action
        found == /\ <<"printer_id">> \in DOMAIN event.parameters
                 /\ event.parameters[<<"printer_id">>] \in Printers
        tries == \/ t = "printer_control" /\ a \in {"pause_print", "stop_print"}
                 \/ t = "printer_control" /\ a = "resume_print"
                 \/ t = "temperature_control" /\ a \in {"set_hotend", "set_bed"}
                 \/ t = "movement_control" /\ a \in {"home", "extrude"}
        jogs == t = "movement_control" /\ a = "jog"
        starts == t = "printer_control" /\ a = "start_print_bbl"
    IN  [throws_at : IF found /\ jogs THEN 0 .. 2 ELSE IF found /\ tries THEN 0 .. 1 ELSE {0},
         can_resume : IF found /\ t = "printer_control" /\ a = "resume_print"
                      THEN BOOLEAN ELSE {TRUE},
         at_home : IF found /\ jogs THEN {Axes3, {"X", "Y"}} ELSE {Axes3},
         hot : IF found /\ t = "movement_control" /\ a = "extrude" THEN BOOLEAN ELSE {TRUE},
         download_ok : IF found /\ starts THEN BOOLEAN ELSE {TRUE},
         load_ok : IF found /\ starts THEN BOOLEAN ELSE {TRUE}]

\* wxStringToStringHashMap::operator[]: the value of the key, empty for a key not there.
Param(parameters, key) == IF key \in DOMAIN parameters THEN parameters[key] ELSE ""
\* event.GetOriginalCommandStr()
OriginalCommandStr(event) ==
    <<event.commandType, event.action, Param(event.parameters, <<"printer_id">>)>>
\* wxString::ToLong and wxString::ToDouble: whether the text is a number; its value.
ToLong(str) == str \in {"60", "120", "5", "10"}
ToDouble(str) == ToLong(str) \/ str = "1.5"
NumberOf(str) == CASE str = "60" -> 60 [] str = "120" -> 120 [] str = "5" -> 5 [] OTHER -> 10
\* wxString::MakeUpper
MakeUpper(name) ==
    CASE name = "x" -> "X" [] name = "y" -> "Y" [] name = "z" -> "Z" [] OTHER -> name
\* The keys of a std::map<wxString, wxString> in the order it is iterated in.
KeyOrder == <<"", "W", "X", "Y", "Z", "x", "y", "z">>
InOrder(map) == SelectSeq(KeyOrder, LAMBDA name : name \in DOMAIN map)
\* MachineObject::get_bed_temperature_limit()
bed_temperature_limit == 100

\* PrintagoPanel::ExtractPrefixedParams
ExtractPrefixedParams(params, prefix) ==
    LET prefixed == {key \in DOMAIN params : Len(key) = 2 /\ key[1] = prefix}
    IN  [parmName \in {key[2] : key \in prefixed} |-> params[<<prefix, parmName>>]]

\* A PrintagoMessageEvent posted to the panel.  The local command and the detail are
\* tuples of the texts they are put together from.
Message(type, printer_id, localCommand, command, detail) ==
    [type |-> type, printer_id |-> printer_id, local_command |-> localCommand,
     command |-> command, detail |-> detail]
\* PrintagoPanel::SendStatusMessage, SendResponseMessage: both post a "status" message.
SendStatusMessage(printer_id, command) == Message("status", printer_id, <<>>, command, <<>>)
SendResponseMessage(printer_id, command) == Message("status", printer_id, <<>>, command, <<>>)
\* PrintagoPanel::SendSuccessMessage
SendSuccessMessage(printer_id, localCommand, command, localCommandDetail) ==
    Message("success", printer_id, localCommand, command, localCommandDetail)
\* PrintagoPanel::SendErrorMessage
SendErrorMessage(printer_id, localCommand, command, errorDetail) ==
    Message("error", printer_id, localCommand, command, errorDetail)

\* The fields of the panel a handler works on.
Panel ==
    [m_can_process_job |-> m_can_process_job, jobPrinterId |-> jobPrinterId,
     jobCommand |-> jobCommand, jobLocalFilePath |-> jobLocalFilePath,
     m_select_machine_dlg |-> m_select_machine_dlg]
\* What a handler leaves: the panel, the messages posted and what was asked of the
\* printers and of the plater, in order.
Left(p, posted, asked) == [p |-> p, out |-> posted, issued |-> asked]
\* A call on a printer or on the plater.
Asked(of, what, args) == [of |-> of, what |-> what, args |-> args]

\* PrintagoPanel::set_can_process_job
set_can_process_job(p, can_process_job) ==
    IF can_process_job
    THEN [p EXCEPT !.jobPrinterId = "", !.jobCommand = <<>>, !.jobLocalFilePath = "",
                   !.m_select_machine_dlg = FALSE, !.m_can_process_job = TRUE]
    ELSE [p EXCEPT !.m_can_process_job = FALSE]

\* PrintagoPanel::SendErrorAndUnblock
SendErrorOnly(p, printer_id, localCommand, command, errorDetail, asked) ==
    Left(p, <<SendErrorMessage(printer_id, localCommand, command, errorDetail)>>, asked)
SendErrorAndUnblock(p, printer_id, localCommand, command, errorDetail, asked) ==
    Left(set_can_process_job(p, TRUE),
         <<SendErrorMessage(printer_id, localCommand, command, errorDetail)>>, asked)

\* The last component of the path of a url, without its query; empty when there is none.
uriFileName(url) == CASE url = "h/a.3mf" -> "a.3mf" [] url = "h/a.stl" -> "a.stl" [] OTHER -> ""
\* wxFileName::GetExt().MakeUpper()
GetExt(name) == CASE name = "a.3mf" -> "3MF" [] name = "a.stl" -> "STL" [] OTHER -> ""
\* PrintagoPanel::SavePrintagoFile: whether it succeeds, the localPath it leaves and
\* whether DownloadFileFromURL was called.
SavePrintagoFile(url, localPath, env) ==
    IF uriFileName(url) = ""
    THEN [ok |-> FALSE, localPath |-> localPath, downloads |-> FALSE]
    ELSE IF env.download_ok
    THEN [ok |-> TRUE, localPath |-> uriFileName(url), downloads |-> TRUE]
    ELSE [ok |-> FALSE, localPath |-> "", downloads |-> TRUE]

\* HandlePrintagoCommand, start_print_bbl: "if (!can_process_job())".
busy_never(p) == FALSE
busy(p) == ~p.m_can_process_job

\* HandlePrintagoCommand, start_print_bbl: the job fields written before the busy test.
job_noted(p, printerId, originalCommandStr) ==
    [p EXCEPT !.jobPrinterId = printerId, !.jobCommand = originalCommandStr,
              !.m_select_machine_dlg = TRUE]

\* HandlePrintagoCommand, the start_print_bbl branch of printer_control, with the three
\* messages that follow it.
start_print_bbl(p, event, env, printerId) ==
    LET action == event.action
        originalCommandStr == OriginalCommandStr(event)
        printagoFileUrl == Param(event.parameters, <<"url">>)
        noted == job_noted(p, printerId, originalCommandStr)
        blocked == set_can_process_job(noted, FALSE)
        saved == SavePrintagoFile(printagoFileUrl, blocked.jobLocalFilePath, env)
        filed == [blocked EXCEPT !.jobLocalFilePath = saved.localPath]
        download == IF saved.downloads
                    THEN <<Asked("plater", "reset", <<>>),
                           Asked("Http", "get", <<printagoFileUrl>>)>>
                    ELSE <<>>
        load == <<Asked("plater",
                        IF GetExt(filed.jobLocalFilePath) = "3MF" THEN "load_project"
                        ELSE "load_files", <<filed.jobLocalFilePath>>)>>
    IN  IF busy(noted)
        THEN Left(noted, <<SendErrorMessage(printerId, <<action>>, originalCommandStr,
                                            <<"busy with current job - check status">>)>>,
                  <<>>)
        ELSE IF printagoFileUrl = ""
        THEN SendErrorAndUnblock(blocked, printerId, <<action>>, originalCommandStr,
                                 <<"no url specified">>, <<>>)
        ELSE IF ~saved.ok
        THEN SendErrorAndUnblock(filed, printerId, <<action>>, originalCommandStr,
                                 <<"download failed">>, download)
        ELSE IF ~env.load_ok
        THEN SendErrorAndUnblock(filed, printerId, <<action>>, originalCommandStr,
                                 <<"an error occurred loading the file">>, download \o load)
        ELSE Left(filed,
                  <<SendSuccessMessage(printerId, <<action, "download_file">>,
                                       originalCommandStr,
                                       <<"downloaded successfully", filed.jobLocalFilePath>>),
                    SendSuccessMessage(printerId, <<action, "load_file">>,
                                       originalCommandStr,
                                       <<"model loaded", filed.jobLocalFilePath>>),
                    SendSuccessMessage(printerId, <<action, "start_slice">>,
                                       originalCommandStr,
                                       <<"slicing started", filed.jobLocalFilePath>>)>>,
                  download \o load
                  \o <<Asked("plater", "select_plate", <<0>>),
                       Asked("plater", "reslice", <<>>)>>)

\* A printer command in a try block: an error message when it throws, the success
\* message of the command otherwise.
Tried(p, event, env, printerId, what, args, errorDetail, actionDetail) ==
    IF env.throws_at = 1
    THEN Left(p, <<SendErrorMessage(printerId, <<event.action>>, OriginalCommandStr(event),
                                    <<errorDetail>>)>>, <<Asked(printerId, what, args)>>)
    ELSE Left(p, <<SendSuccessMessage(printerId, <<event.action>>, OriginalCommandStr(event),
                                      actionDetail)>>, <<Asked(printerId, what, args)>>)
\* An error message and nothing else.
Refused(p, event, printerId, errorDetail) ==
    Left(p, <<SendErrorMessage(printerId, <<event.action>>, OriginalCommandStr(event),
                               errorDetail)>>, <<>>)

\* HandlePrintagoCommand, commandType "printer_control".
printer_control(p, event, env, printerId) ==
    LET action == event.action
    IN  CASE action = "pause_print" ->
                 Tried(p, event, env, printerId, "command_task_pause", <<>>,
                       "an error occurred issuing pause_print", <<"">>)
          [] action = "resume_print" ->
                 IF env.can_resume
                 THEN Tried(p, event, env, printerId, "command_task_resume", <<>>,
                            "an error occurred issuing resume_print", <<"">>)
                 ELSE Refused(p, event, printerId, <<"cannot resume print">>)
          [] action = "stop_print" ->
                 Tried(p, event, env, printerId, "command_task_abort", <<>>,
                       "an error occurred issuing stop_print", <<"">>)
          [] action = "get_status" ->
                 Left(p, <<SendStatusMessage(printerId, OriginalCommandStr(event))>>, <<>>)
          [] action = "start_print_bbl" -> start_print_bbl(p, event, env, printerId)
          [] OTHER -> Refused(p, event, printerId, <<"invalid printer_control action">>)

\* HandlePrintagoCommand, commandType "temperature_control".
temperature_control(p, event, env, printerId) ==
    LET action == event.action
        tempStr == Param(event.parameters, <<"temperature">>)
        targetTemp == NumberOf(tempStr)
        bedTemp == IF targetTemp >= bed_temperature_limit THEN bed_temperature_limit
                   ELSE targetTemp
    IN  IF ~ToLong(tempStr) THEN Refused(p, event, printerId, <<"invalid temperature value">>)
        ELSE CASE action = "set_hotend" ->
                      Tried(p, event, env, printerId, "command_set_nozzle", <<targetTemp>>,
                            "an error occurred setting nozzle temperature", <<"%d", targetTemp>>)
               [] action = "set_bed" ->
                      Tried(p, event, env, printerId, "command_set_bed", <<bedTemp>>,
                            "an error occurred setting bed temperature", <<"%d", bedTemp>>)
               [] OTHER -> Refused(p, event, printerId, <<"invalid temperature_control action">>)

\* HandlePrintagoCommand, jog: "if (axes.empty())" and the test of the axes at home.
axes_given(axes) == DOMAIN axes # {}
all_at_home(at_home) == "X" \in at_home /\ "Y" \in at_home /\ "Z" \in at_home
\* HandlePrintagoCommand, jog, first loop: the tests made on one axis.
axis_name_valid_any(axisName) == TRUE
axis_name_valid(axisName) == axisName \in {"X", "Y", "Z"}
axis_value_valid(axisValueStr) == ToDouble(axisValueStr)

\* HandlePrintagoCommand, jog, second loop: the moves asked of the printer, up to and
\* including the one that throws.
jog_moves(printerId, axes, throws_at) ==
    LET order == InOrder(axes)
        last == IF throws_at \in 1 .. Len(order) THEN throws_at ELSE Len(order)
    IN  [k \in 1 .. last |->
            Asked(printerId, "command_axis_control",
                  <<MakeUpper(order[k]), NumberOf(axes[order[k]]), 3000>>)]

\* HandlePrintagoCommand, the jog branch of movement_control.
jog(p, event, env, printerId) ==
    LET axes == ExtractPrefixedParams(event.parameters, "axes")
        order == InOrder(axes)
        invalid == {k \in 1 .. Len(order) :
                       \/ ~axis_name_valid(MakeUpper(order[k]))
                       \/ ~axis_value_valid(axes[order[k]])}
        first == CHOOSE k \in invalid : \A other \in invalid : k <= other
    IN  IF ~axes_given(axes) THEN Refused(p, event, printerId, <<"no axes specified">>)
        ELSE IF ~all_at_home(env.at_home)
        THEN Refused(p, event, printerId, <<"must home axes before moving">>)
        ELSE IF invalid # {}
        THEN Refused(p, event, printerId,
                     IF ~axis_name_valid(MakeUpper(order[first]))
                     THEN <<"invalid axis name", MakeUpper(order[first])>>
                     ELSE <<"invalid value for axis", MakeUpper(order[first])>>)
        ELSE IF env.throws_at \in 1 .. Len(order)
        THEN Left(p, <<SendErrorMessage(printerId, <<event.action>>, OriginalCommandStr(event),
                                        <<"an error occurred moving axis",
                                          MakeUpper(order[env.throws_at])>>)>>,
                  jog_moves(printerId, axes, env.throws_at))
        ELSE Left(p, <<SendSuccessMessage(printerId, <<event.action>>,
                                          OriginalCommandStr(event), <<"">>)>>,
                  jog_moves(printerId, axes, env.throws_at))

\* HandlePrintagoCommand, commandType "movement_control".
movement_control(p, event, env, printerId) ==
    LET action == event.action
        amtStr == Param(event.parameters, <<"amount">>)
    IN  CASE action = "jog" -> jog(p, event, env, printerId)
          [] action = "home" ->
                 Tried(p, event, env, printerId, "command_go_home", <<>>,
                       "an error occurred homing axes", <<"">>)
          [] action = "extrude" ->
                 IF ~ToLong(amtStr)
                 THEN Refused(p, event, printerId, <<"invalid extrude amount value">>)
                 ELSE IF env.hot
                 THEN Tried(p, event, env, printerId, "command_axis_control",
                            <<"E", NumberOf(amtStr), 900>>,
                            "an error occurred extruding filament", <<"%d", NumberOf(amtStr)>>)
                 ELSE Refused(p, event, printerId, <<"nozzle temperature too low to extrude">>)
          [] OTHER -> Refused(p, event, printerId, <<"invalid movement_control action">>)

\* HandlePrintagoCommand: what the handler leaves of panel p.
HandlePrintagoCommand_left(p, event, env) ==
    LET commandType == event.commandType
        action == event.action
        originalCommandStr == OriginalCommandStr(event)
        printerId == IF <<"printer_id">> \in DOMAIN event.parameters
                     THEN event.parameters[<<"printer_id">>] ELSE "Unspecified"
    IN  IF commandType = "status"
        THEN IF action = "get_machine_list"
             THEN Left(p, <<SendResponseMessage("username", originalCommandStr)>>, <<>>)
             ELSE Left(p, <<SendErrorMessage("", <<action>>, originalCommandStr,
                                             <<"invalid status action">>)>>, <<>>)
        ELSE IF printerId = "Unspecified"
        THEN Left(p, <<SendErrorMessage("", <<action>>, originalCommandStr,
                                        <<"no printer_id specified">>)>>, <<>>)
        ELSE IF printerId \notin Printers
        THEN Refused(p, event, printerId, <<"no printer not found with ID", printerId>>)
        ELSE IF commandType = "printer_control"
        THEN printer_control(p, event, env, printerId)
        ELSE IF commandType = "temperature_control"
        THEN temperature_control(p, event, env, printerId)
        ELSE IF commandType = "movement_control"
        THEN movement_control(p, event, env, printerId)
        ELSE Left(p, <<>>, <<>>)

\* Whether reslice() is among what was asked.
Reslices(asked) == \E k \in 1 .. Len(asked) : asked[k].what = "reslice"
\* The panel fields take the values of p.
PanelBecomes(p) ==
    /\ m_can_process_job' = p.m_can_process_job
    /\ jobPrinterId' = p.jobPrinterId
    /\ jobCommand' = p.jobCommand
    /\ jobLocalFilePath' = p.jobLocalFilePath
    /\ m_select_machine_dlg' = p.m_select_machine_dlg

\* PrintagoPanel::HandlePrintagoCommand
HandlePrintagoCommand(event, env) ==
    /\ LET left == HandlePrintagoCommand_left(Panel, event, env)
       IN  /\ call' = [op |-> "HandlePrintagoCommand", event |-> event, env |-> env]
           /\ PanelBecomes(left.p)
           /\ out' = left.out
           /\ issued' = left.issued
           /\ reslicing' = (reslicing \/ Reslices(left.issued))
           /\ accepted_job' = IF left.p.m_can_process_job THEN <<>>
                              ELSE IF m_can_process_job
                              THEN <<left.p.jobPrinterId, left.p.jobCommand>>
                              ELSE accepted_job
    /\ UNCHANGED <<gcodeVars, downloadVars, navVars>>

\* SlicingProcessCompletedEvent: how the slicing ended.
SlicingStatuses == {"Finished", "Cancelled", "Error"}
event_success(status) == status = "Finished"
event_cancelled(status) == status = "Cancelled"
event_error(status) == status = "Error"

\* OnSlicingProcessCompleted: "in case we got here by mistake".
nothing_to_process(p) == p.jobPrinterId = "" \/ ~p.m_select_machine_dlg \/ p.m_can_process_job

\* OnSlicingProcessCompleted: what the handler leaves of panel p.
OnSlicingProcessCompleted_left(p, status) ==
    IF nothing_to_process(p) THEN Left(set_can_process_job(p, TRUE), <<>>, <<>>)
    ELSE IF ~event_success(status)
    THEN SendErrorAndUnblock(p, p.jobPrinterId, <<"start_print_bbl">>, p.jobCommand,
                             <<IF event_cancelled(status) THEN "slicing cancelled"
                               ELSE IF event_error(status) THEN "slicing error"
                               ELSE "Slicing Unknown Error", p.jobLocalFilePath>>, <<>>)
    ELSE Left(set_can_process_job(p, TRUE),
              <<SendSuccessMessage(p.jobPrinterId, <<"start_print_bbl", "slice_complete">>,
                                   p.jobCommand, <<"slicing complete", p.jobLocalFilePath>>),
                SendSuccessMessage(p.jobPrinterId, <<"start_print_bbl">>, p.jobCommand,
                                   <<"Job Sent to Printer", p.jobLocalFilePath>>)>>,
              <<Asked("devManager", "set_selected_machine", <<p.jobPrinterId>>),
                Asked("m_select_machine_dlg", "setPrinterLastSelect", <<p.jobPrinterId>>),
                Asked("m_select_machine_dlg", "on_ok_btn", <<>>)>>)

\* PrintagoPanel::OnSlicingProcessCompleted
OnSlicingProcessCompleted(status) ==
    /\ LET left == OnSlicingProcessCompleted_left(Panel, status)
       IN  /\ call' = [op |-> "OnSlicingProcessCompleted", status |-> status,
                       pending |-> accepted_job]
           /\ PanelBecomes(left.p)
           /\ out' = left.out
           /\ issued' = left.issued
    /\ reslicing' = FALSE
    /\ accepted_job' = <<>>
    /\ UNCHANGED <<gcodeVars, downloadVars, navVars>>

----------------------------------------------------------------------------
(* PrintagoPanel::DownloadFileFromURL: the calling thread and the download *)
(* thread it creates.  cont, download_ok and retry_count are plain         *)
(* variables of the caller that both threads use; a step is one read or    *)
(* one write of them.                                                      *)

\* const int max_retries = 3
max_retries == 3

\* One step of DownloadFileFromURL.
DownloadStep(step) == [op |-> "DownloadFileFromURL", step |-> step]

\* download thread: "while (cont && retry_count < max_retries)".
tries_again(c, count) == c /\ count < max_retries
\* on_error: "if (retry_count == max_retries)", whether the thread gives up.
gives_up_never(count) == FALSE
gives_up(count) == count = max_retries
\* The two assignments of on_complete, which nothing orders for the other thread.
CompletionStores == {"cont", "download_ok"}

\* DownloadFileFromURL up to and including Slic3r::create_thread.
create_thread ==
    /\ caller = "create_thread"
    /\ call' = DownloadStep("create_thread")
    /\ download_thread' = "while"
    /\ caller' = "while"
    /\ UNCHANGED <<cont, download_ok, retry_count, percent, attempts, returned>>
    /\ UNCHANGED <<gcodeVars, panelVars, navVars, out>>

\* download thread: the test of its loop and "retry_count++".
thread_while ==
    /\ download_thread = "while"
    /\ call' = DownloadStep("thread_while")
    /\ IF tries_again(cont, retry_count)
       THEN /\ retry_count' = retry_count + 1
            /\ download_thread' = "perform_sync"
       ELSE /\ download_thread' = "finished"
            /\ UNCHANGED retry_count
    /\ UNCHANGED <<cont, download_ok, percent, caller, attempts, returned>>
    /\ UNCHANGED <<gcodeVars, panelVars, navVars, out>>

\* What Http reports to on_progress: nothing known yet, half of the file, all of it.
Progresses == {[dlnow |-> 0, dltotal |-> 0], [dlnow |-> 1, dltotal |-> 2],
               [dlnow |-> 2, dltotal |-> 2]}

\* download thread: the on_progress callback during perform_sync, which asks Http to
\* cancel when cont is false.
on_progress(progress) ==
    /\ download_thread = "perform_sync"
    /\ call' = [op |-> "DownloadFileFromURL", step |-> "on_progress", cancel |-> ~cont]
    /\ percent' = IF progress.dltotal # 0 THEN (progress.dlnow * 100) \div progress.dltotal
                  ELSE percent
    /\ UNCHANGED <<cont, download_ok, retry_count, download_thread, caller, attempts,
                   returned>>
    /\ UNCHANGED <<gcodeVars, panelVars, navVars, out>>

\* download thread: perform_sync ends in the on_error callback.
on_error ==
    /\ download_thread = "perform_sync"
    /\ call' = DownloadStep("on_error")
    /\ attempts' = Append(attempts, "error")
    /\ cont' = IF gives_up(retry_count) THEN FALSE ELSE cont
    /\ download_thread' = "while"
    /\ UNCHANGED <<download_ok, retry_count, percent, caller, returned>>
    /\ UNCHANGED <<gcodeVars, panelVars, navVars, out>>

\* download thread: perform_sync ends in the on_complete callback, which writes the file
\* and renames it; the first of its two assignments to reach the other thread.
on_complete(first) ==
    /\ download_thread = "perform_sync"
    /\ call' = DownloadStep("on_complete")
    /\ attempts' = Append(attempts, "complete")
    /\ IF first = "cont"
       THEN cont' = FALSE /\ download_thread' = "store download_ok" /\ UNCHANGED download_ok
       ELSE download_ok' = TRUE /\ download_thread' = "store cont" /\ UNCHANGED cont
    /\ UNCHANGED <<retry_count, percent, caller, returned>>
    /\ UNCHANGED <<gcodeVars, panelVars, navVars, out>>

\* download thread: the other assignment of on_complete.
on_complete_second ==
    /\ download_thread \in {"store cont", "store download_ok"}
    /\ call' = DownloadStep("on_complete_second")
    /\ IF download_thread = "store cont"
       THEN cont' = FALSE /\ UNCHANGED download_ok
       ELSE download_ok' = TRUE /\ UNCHANGED cont
    /\ download_thread' = "while"
    /\ UNCHANGED <<retry_count, percent, caller, attempts, returned>>
    /\ UNCHANGED <<gcodeVars, panelVars, navVars, out>>

\* caller: "while (cont)".
caller_while ==
    /\ caller = "while"
    /\ call' = DownloadStep("caller_while")
    /\ caller' = IF cont THEN "wxMilliSleep" ELSE "join"
    /\ UNCHANGED <<cont, download_ok, retry_count, percent, download_thread, attempts, returned>>
    /\ UNCHANGED <<gcodeVars, panelVars, navVars, out>>

\* caller: "wxMilliSleep(50); if (download_ok) break;".
caller_sleep ==
    /\ caller = "wxMilliSleep"
    /\ call' = DownloadStep("caller_sleep")
    /\ caller' = IF download_ok THEN "join" ELSE "while"
    /\ UNCHANGED <<cont, download_ok, retry_count, percent, download_thread, attempts, returned>>
    /\ UNCHANGED <<gcodeVars, panelVars, navVars, out>>

\* caller: "download_thread.join(); return download_ok;", once the thread has ended.
join ==
    /\ caller = "join"
    /\ download_thread = "finished"
    /\ call' = DownloadStep("join")
    /\ caller' = "done"
    /\ returned' = {download_ok}
    /\ UNCHANGED <<cont, download_ok, retry_count, percent, download_thread, attempts>>
    /\ UNCHANGED <<gcodeVars, panelVars, navVars, out>>

\* The steps of each thread.
AttemptEnds ==
    \/ on_error
    \/ \E first \in CompletionStores : on_complete(first)
DownloadThread ==
    \/ thread_while
    \/ \E progress \in Progresses : on_progress(progress)
    \/ AttemptEnds
    \/ on_complete_second
Caller ==
    \/ create_thread
    \/ caller_while
    \/ caller_sleep
    \/ join

----------------------------------------------------------------------------
(* PrintagoPanel::OnNavigationRequest.  A url is a record [scheme, path,   *)
(* query]; its path is a sequence of characters and its query a sequence   *)
(* of <<key, value>> pairs.                                                *)

PathCharacters == {"/", "a"}
\* The paths tried have up to MaxPath characters.
MaxPath == 4
Paths == UNION {[1 .. n -> PathCharacters] : n \in 0 .. MaxPath}
Queries == {<<>>, << <<"printer_id", "P1">> >>, << <<"printer_id", "P1">>, <<"printer_id", "P2">> >>}
Urls == [scheme : {"printago", "https"}, path : Paths, query : Queries]

\* The characters of text before the first delimiter, and what follows that delimiter.
RECURSIVE BeforeFirst(_, _)
BeforeFirst(text, delim) ==
    IF text = <<>> \/ Head(text) = delim THEN <<>>
    ELSE <<Head(text)>> \o BeforeFirst(Tail(text), delim)
AfterFirst(text, delim) ==
    IF Len(BeforeFirst(text, delim)) = Len(text) THEN <<>>
    ELSE SubSeq(text, Len(BeforeFirst(text, delim)) + 2, Len(text))
\* wxStringTokenize(text, delim) in its default mode for a delimiter that is not white
\* space: empty tokens in front of and between delimiters are returned, the delimiters
\* the text ends with are ignored.
RECURSIVE Tokens(_, _, _)
Tokens(text, delim, at_start) ==
    IF (\E k \in 1 .. Len(text) : text[k] # delim) \/ (at_start /\ text # <<>>)
    THEN <<BeforeFirst(text, delim)>> \o Tokens(AfterFirst(text, delim), delim, FALSE)
    ELSE <<>>
wxStringTokenize(text, delim) == Tokens(text, delim, TRUE)

\* PrintagoPanel::ParseQueryString: the last value given for each key.
ParseQueryString(queryString) ==
    [key \in {queryString[k][1] : k \in 1 .. Len(queryString)} |->
        LET last == CHOOSE k \in 1 .. Len(queryString) :
                        /\ queryString[k][1] = key
                        /\ \A later \in k + 1 .. Len(queryString) : queryString[later][1] # key
        IN  queryString[last][2]]

\* OnNavigationRequest: "if (pathComponents.GetCount() >= 2)".
enough_components(pathComponents) == Len(pathComponents) >= 2
\* wxArrayString::Item(n), n counted from 0: the component; for an n that is not in the
\* array whatever the memory behind the array holds.
Garbage == {<<>>, <<"?">>}
Item(pathComponents, n) ==
    IF n < Len(pathComponents) THEN {pathComponents[n + 1]} ELSE Garbage
\* The indices among ns that are not in the array.
NotInArray(pathComponents, ns) == {n \in ns : n >= Len(pathComponents)}

\* PrintagoPanel::OnNavigationRequest
OnNavigationRequest(url) ==
    /\ call' = [op |-> "OnNavigationRequest", url |-> url]
    /\ IF url.scheme = "printago"
       THEN LET pathComponents == wxStringTokenize(url.path, "/")
            IN  /\ vetoed' = TRUE
                /\ IF enough_components(pathComponents)
                   THEN /\ item_read' = NotInArray(pathComponents, {1, 2})
                        /\ \E commandType \in Item(pathComponents, 1),
                              action \in Item(pathComponents, 2) :
                               out' = <<[commandType |-> commandType, action |-> action,
                                         parameters |-> ParseQueryString(url.query)]>>
                        /\ m_info_shown' = FALSE
                   ELSE /\ item_read' = {}
                        /\ out' = <<>>
                        /\ UNCHANGED m_info_shown
       ELSE /\ vetoed' = FALSE
            /\ item_read' = {}
            /\ out' = <<>>
            /\ m_info_shown' = FALSE
    /\ UNCHANGED <<gcodeVars, panelVars, downloadVars>>

\* PrintagoPanel::OnError: the info bar is shown.
OnError ==
    /\ call' = [op |-> "OnError"]
    /\ m_info_shown' = TRUE
    /\ vetoed' = FALSE
    /\ item_read' = {}
    /\ out' = <<>>
    /\ UNCHANGED <<gcodeVars, panelVars, downloadVars>>

----------------------------------------------------------------------------
(* Specifications. *)

Vec3(p, z) == [x |-> p[1], y |-> p[2], z |-> z]

\* The panel after construction: ready for a job, none recorded, no download under way,
\* the info bar hidden.
InitGui ==
    /\ m_can_process_job = TRUE
    /\ jobPrinterId = ""
    /\ jobCommand = <<>>
    /\ jobLocalFilePath = ""
    /\ m_select_machine_dlg = FALSE
    /\ reslicing = FALSE
    /\ accepted_job = <<>>
    /\ issued = <<>>
    /\ cont = TRUE
    /\ download_ok = FALSE
    /\ retry_count = 0
    /\ percent = 1
    /\ download_thread = "not created"
    /\ caller = "create_thread"
    /\ attempts = <<>>
    /\ returned = {}
    /\ m_info_shown = FALSE
    /\ vetoed = FALSE
    /\ item_read = {}

\* The writer after construction and set-up of one extruder: nothing lifted, nothing
\* pending, the position not yet known to be clear.
InitWriter ==
    /\ m_pos = [x |-> 0, y |-> 0, z |-> 0]
    /\ m_lifted = 0
    /\ m_to_lift = 0
    /\ m_to_lift_type = "NormalLift"
    /\ m_is_current_pos_clear = FALSE
    /\ m_E = 0
    /\ assert_ok = TRUE
    /\ honored_lift = "none"

InitBed ==
    /\ m_last_bed_temperature = 0
    /\ m_last_bed_temperature_reached = TRUE
    /\ bed_issued = <<>>

\* The configuration left at the defaults where a specification does not vary it.
InitConfig ==
    /\ adjust_accel_to_decel = FALSE
    /\ use_firmware_retraction = FALSE
    /\ retraction_length = 0
    /\ retract_length_toolchange = 0

\* No acceleration or jerk set yet.
InitAccel ==
    /\ m_last_acceleration = 0
    /\ m_last_jerk = 0
    /\ accel_emitted = {}
    /\ jerk_emitted = {}

\* One extruder, id 0, configured and none selected yet.
InitTool ==
    /\ set_extruders({0})
    /\ m_extruder = nullptr
    /\ NDEBUG = FALSE
    /\ aborted = FALSE

\* SpiralVase::SpiralVase: disabled, no previous layer, the reader at the origin.
InitVase ==
    /\ m_enabled = FALSE
    /\ m_transition_layer = FALSE
    /\ m_smooth_spiral = FALSE
    /\ m_previous_layer = {}
    /\ m_reader = [x |-> 0, y |-> 0, z |-> 0, e |-> 0]
    /\ vectors = <<>>
    /\ m_previous_layer_at = 0
    /\ read_deleted = FALSE

\* The motion operations of the writer, for every configured z_hop.
Init ==
    /\ InitWriter
    /\ InitGui
    /\ InitBed
    /\ InitConfig
    /\ apply_print_config("gcfMarlinFirmware", 0, 0, 0)
    /\ InitAccel
    /\ InitVase
    /\ InitTool
    /\ \E i \in 1 .. Len(ZHops) : z_hop = ZHops[i]
    /\ use_relative_e_distances = FALSE
    /\ call = NoCall
    /\ out = NoLine

Next ==
    \/ \E t \in LiftTypes : lift(t)
    \/ unlift
    \/ \E p \in Points : travel_to_xy(p)
    \/ \E z \in Zs : travel_to_z(z)
    \/ \E p \in Points, z \in Zs : travel_to_xyz(Vec3(p, z))
    \/ \E p \in Points, a \in ExtrudeArgs : extrude_to_xy(p, a[1], a[2])
    \/ \E p \in Points, a \in ExtrudeArgs, ccw \in BOOLEAN :
           extrude_arc_to_xy(p, <<5, 0>>, a[1], ccw, a[2])
    \/ \E p \in Points, z \in Zs, a \in ExtrudeArgs : extrude_to_xyz(Vec3(p, z), a[1], a[2])

Spec == Init /\ [][Next]_vars

\* The bed-temperature commands alone, from any remembered temperature and flag.
InitBedSpec ==
    /\ InitWriter
    /\ InitGui
    /\ InitConfig
    /\ apply_print_config("gcfMarlinFirmware", 0, 0, 0)
    /\ InitAccel
    /\ InitVase
    /\ InitTool
    /\ z_hop = 0
    /\ use_relative_e_distances = FALSE
    /\ m_last_bed_temperature \in Temps
    /\ m_last_bed_temperature_reached \in BOOLEAN
    /\ bed_issued = <<>>
    /\ call = NoCall
    /\ out = NoLine

NextBed == \E t \in Temps, w \in BOOLEAN : set_bed_temperature(t, w)

SpecBed == InitBedSpec /\ [][NextBed]_vars

\* The acceleration and jerk commands, for every flavor and machine limits.
InitAccelSpec ==
    /\ InitWriter
    /\ InitGui
    /\ z_hop = 0
    /\ use_relative_e_distances = FALSE
    /\ InitBed
    /\ InitTool
    /\ adjust_accel_to_decel \in BOOLEAN
    /\ use_firmware_retraction = FALSE
    /\ retraction_length = 0
    /\ retract_length_toolchange = 0
    /\ \E flavor \in Flavors, acceleration \in Limits, jerk_x \in Limits, jerk_y \in Limits :
           apply_print_config(flavor, acceleration, jerk_x, jerk_y)
    /\ InitAccel
    /\ InitVase
    /\ call = NoCall
    /\ out = NoLine

NextAccel ==
    \/ \E acceleration \in Requests : set_acceleration(acceleration)
    \/ \E jerk \in Requests : set_jerk_xy(jerk)

SpecAccel == InitAccelSpec /\ [][NextAccel]_vars

\* Tool changes and retractions, for every set of extruders, in builds with and
\* without assert().
InitToolSpec ==
    /\ InitWriter
    /\ InitGui
    /\ z_hop = 0
    /\ use_relative_e_distances \in BOOLEAN
    /\ InitBed
    /\ InitAccel
    /\ InitVase
    /\ adjust_accel_to_decel = FALSE
    /\ use_firmware_retraction \in BOOLEAN
    /\ retraction_length \in RetractLengths
    /\ retract_length_toolchange \in RetractLengths
    /\ \E flavor \in ToolFlavors : apply_print_config(flavor, 0, 0, 0)
    /\ \E extruder_ids \in (SUBSET ExtruderIds) \ {{}} : set_extruders(extruder_ids)
    /\ m_extruder = nullptr
    /\ NDEBUG \in BOOLEAN
    /\ aborted = FALSE
    /\ call = NoCall
    /\ out = NoLine

NextTool ==
    \/ \E extruder_ids \in (SUBSET ExtruderIds) \ {{}} : set_extruders_again(extruder_ids)
    \/ \E extruder_id \in ExtruderIds : toolchange(extruder_id)
    \/ \E before_wipe \in BOOLEAN : retract(before_wipe)
    \/ \E before_wipe \in BOOLEAN : retract_for_toolchange(before_wipe)
    \/ unretract

SpecTool == InitToolSpec /\ [][NextTool]_vars

\* The formatter applied once to each axis, value and digit count tried: a formatter is
\* about to emit (call names the arguments), then has emitted.
InitFormatSpec ==
    /\ InitWriter
    /\ InitGui
    /\ z_hop = 0
    /\ use_relative_e_distances = FALSE
    /\ InitBed
    /\ InitConfig
    /\ apply_print_config("gcfMarlinFirmware", 0, 0, 0)
    /\ InitAccel
    /\ InitVase
    /\ InitTool
    /\ \E axis \in Axes, v \in Values, digits \in 0 .. MaxDigits :
           call = [op |-> "GCodeFormatter", axis |-> axis, v |-> v, digits |-> digits]
    /\ out = NoLine

NextFormat == call.op = "GCodeFormatter" /\ emit_axis(call.axis, call.v, call.digits)

SpecFormat == InitFormatSpec /\ [][NextFormat]_vars

\* The spiral vase transform over the layers of a print, enabled and disabled between
\* layers, with and without smoothing, in relative and absolute extrusion mode.
InitVaseSpec ==
    /\ InitWriter
    /\ InitGui
    /\ z_hop = 0
    /\ use_relative_e_distances \in BOOLEAN
    /\ InitBed
    /\ InitConfig
    /\ apply_print_config("gcfMarlinFirmware", 0, 0, 0)
    /\ InitAccel
    /\ InitTool
    /\ m_enabled = FALSE
    /\ m_transition_layer = FALSE
    /\ m_smooth_spiral \in BOOLEAN
    /\ m_previous_layer = {}
    /\ m_reader = [x |-> 0, y |-> 0, z |-> 0, e |-> 0]
    /\ vectors = <<>>
    /\ m_previous_layer_at = 0
    /\ read_deleted = FALSE
    /\ call = NoCall
    /\ out = NoLine

NextVase ==
    \/ \E en \in BOOLEAN : enable(en)
    \/ \E gcode \in NextLayers, last_layer \in BOOLEAN : process_layer(gcode, last_layer)

SpecVase == InitVaseSpec /\ [][NextVase]_vars

\* The G-code layer at rest beside the panel.
InitGCode ==
    /\ InitWriter
    /\ InitGui
    /\ z_hop = 0
    /\ use_relative_e_distances = FALSE
    /\ InitBed
    /\ InitConfig
    /\ apply_print_config("gcfMarlinFirmware", 0, 0, 0)
    /\ InitAccel
    /\ InitVase
    /\ InitTool
    /\ call = NoCall
    /\ out = NoLine

\* The commands of the web view and the completions of the slicing, in any order.
NextPanel ==
    \/ \E event \in CommandEvents : \E env \in Met(event) : HandlePrintagoCommand(event, env)
    \/ \E status \in SlicingStatuses : OnSlicingProcessCompleted(status)

SpecPanel == InitGCode /\ [][NextPanel]_vars

\* One call of DownloadFileFromURL, its two threads interleaved in any way.
NextDownload == DownloadThread \/ Caller

SpecDownload == InitGCode /\ [][NextDownload]_vars

\* The same with both threads scheduled again and again and every HTTP attempt ending in
\* one of its two callbacks, after any number of progress reports.
FairSpecDownload ==
    /\ SpecDownload
    /\ WF_vars(thread_while \/ on_complete_second)
    /\ WF_vars(AttemptEnds)
    /\ WF_vars(Caller)

\* Navigation requests of the web view, with the info bar shown by errors in between.
NextNavigation ==
    \/ \E url \in Urls : OnNavigationRequest(url)
    \/ OnError

SpecNavigation == InitGCode /\ [][NextNavigation]_vars

----------------------------------------------------------------------------
(* Properties of the lift state machine, checked under Spec.  A step of    *)
(* operation op is a step with call'.op = op: the unprimed variables are   *)
(* the writer before the call, the primed ones the writer after it and     *)
(* out' the string returned.                                               *)

Last(seq) == seq[Len(seq)]
NoZMove(o) == \A i \in 1 .. Len(o) : ~HasZ(o[i])

\* C1: lift suppression.  When travel_to_z(z) or travel_to_xyz(p) is called with a lift
\* applied (m_lifted > 0), none pending, and the target Z between the nominal Z
\* (m_pos.z - m_lifted) and the current Z, no Z move is emitted (travel_to_z returns the
\* empty string, travel_to_xyz one XY-only move to p), the stored Z is unchanged and the
\* lift amount becomes current Z - target Z (0 when that is below EPSILON); the pending
\* lift, its type and the extruder are untouched.
C1_LiftSuppression ==
    [][ ( /\ call'.op \in {"travel_to_z", "travel_to_xyz"}
          /\ m_lifted > 0 /\ m_to_lift = 0
          /\ call'.z >= m_pos.z - m_lifted /\ call'.z <= m_pos.z )
        => ( /\ NoZMove(out')
             /\ m_pos'.z = m_pos.z
             /\ m_lifted' = (IF m_pos.z - call'.z < EPSILON THEN 0 ELSE m_pos.z - call'.z)
             /\ UNCHANGED <<m_to_lift, m_to_lift_type, m_E>>
             /\ call'.op = "travel_to_z" => (out' = NoLine /\ m_pos' = m_pos)
             /\ call'.op = "travel_to_xyz" =>
                    /\ Len(out') = 1
                    /\ out'[1].cmd = "G1"
                    /\ out'[1].X = {m_pos'.x - m_x_offset}
                    /\ out'[1].Y = {m_pos'.y - m_y_offset} )
      ]_vars

\* A travel_to_xyz was suppressed inside the lifted envelope and part of the lift remains.
C1_Witness ==
    /\ call.op = "travel_to_xyz"
    /\ Len(out) = 1 /\ ~HasZ(out[1])
    /\ m_lifted > 0
    /\ call.z > call.nominal_z

\* C2 as stated: after a suppressed travel_to_z(Z) with Z strictly between the nominal Z
\* and the current lifted Z, the next unlift() emits one Z move to exactly Z and leaves
\* m_lifted = 0.
C2_UnliftAfterSuppressed_Original ==
    [][ (SuppressedStrictlyInside /\ call'.op = "unlift")
        => ( /\ out' = <<G1_Z_F(call.z, "restore layer Z")>>
             /\ m_pos'.z = call.z
             /\ m_lifted' = 0 )
      ]_vars

\* C2, amended: the same, when Z is at least EPSILON below the current lifted Z: the
\* unlift() move goes to Z, which is not the nominal Z held before the suppressed call.
\* When Z is less than EPSILON below the current Z, the suppressed call has set the lift
\* amount to 0 and the next unlift() emits nothing and leaves Z where it is.
C2_UnliftAfterSuppressed ==
    [][ (SuppressedStrictlyInside /\ call'.op = "unlift")
        => IF m_pos.z - call.z >= EPSILON
           THEN /\ out' = <<G1_Z_F(call.z, "restore layer Z")>>
                /\ out'[1].Z # {call.nominal_z}
                /\ m_pos'.z = call.z
                /\ m_lifted' = 0
           ELSE /\ out' = NoLine
                /\ m_pos' = m_pos
                /\ m_lifted' = 0
      ]_vars

\* An unlift() right after such a suppressed travel_to_z(Z) has moved the writer to Z.
C2_Witness ==
    /\ call.op = "unlift"
    /\ call.after_suppressed # {}
    /\ Len(out) = 1
    /\ out[1].Z = call.after_suppressed
    /\ m_pos.z \in call.after_suppressed
    /\ m_lifted = 0

\* C3: lift(type) is a no-op whenever a lift is already applied (m_lifted # 0) or pending
\* (m_to_lift # 0), for every lift type, and when the configured z_hop is not positive:
\* it returns the empty string and changes neither the lifted amount, the pending amount,
\* the pending lift type nor the position.
C3_LiftNoOp ==
    [][ (call'.op = "lift" /\ (m_lifted # 0 \/ m_to_lift # 0 \/ z_hop <= 0))
        => ( /\ out' = NoLine
             /\ UNCHANGED <<m_lifted, m_to_lift, m_to_lift_type, m_pos>> )
      ]_vars

\* A normal lift() was called while a lazy or spiral lift was pending, and did nothing.
C3_Witness ==
    /\ call.op = "lift"
    /\ call.lift_type = "NormalLift"
    /\ m_to_lift > 0
    /\ m_lifted = 0
    /\ out = NoLine

\* C4: unlift() reverses an applied lift and always clears a pending one: if m_lifted > 0
\* it emits exactly one Z move to (current Z - m_lifted), otherwise it emits nothing; in
\* both cases m_lifted = 0 and m_to_lift = 0 afterwards, and X and Y are unchanged.
C4_Unlift ==
    [][ call'.op = "unlift"
        => ( /\ IF m_lifted > 0
                THEN /\ out' = <<G1_Z_F(m_pos.z - m_lifted, "restore layer Z")>>
                     /\ m_pos'.z = m_pos.z - m_lifted
                ELSE /\ out' = NoLine
                     /\ m_pos'.z = m_pos.z
             /\ m_lifted' = 0
             /\ m_to_lift' = 0
             /\ m_pos'.x = m_pos.x /\ m_pos'.y = m_pos.y )
      ]_vars

\* An unlift() has reversed an applied lift: one move back to the nominal Z.
C4_Witness ==
    /\ call.op = "unlift"
    /\ call.after_suppressed = {}
    /\ out = <<G1_Z_F(call.nominal_z, "restore layer Z")>>
    /\ m_pos.z = call.nominal_z
    /\ m_lifted = 0 /\ m_to_lift = 0

\* C5: an applied lift and a pending lift never coexist, and the assertion of the
\* pending-lift branch of travel_to_xyz (nothing lifted while a lift is pending) never fails.
C5_LiftedXorPending ==
    /\ ~(m_lifted # 0 /\ m_to_lift # 0)
    /\ assert_ok

\* A travel_to_xyz has consumed a pending lift and turned it into an applied one.
C5_Witness ==
    /\ call.op = "travel_to_xyz"
    /\ m_lifted > 0
    /\ m_to_lift = 0
    /\ HasZ(Last(out))
    /\ Last(out).Z = {m_pos.z}
    /\ assert_ok

\* A lift() step that is honored: it applies the lift or records a pending one.
Honored == call'.op = "lift" /\ (m_lifted' # m_lifted \/ m_to_lift' # m_to_lift)

\* C6 as stated: between two honored lift() requests of different types there is an
\* unlift() call; that is, a lift() honored while honored_lift names an earlier honored
\* request not yet followed by unlift() is of the same type.
C6_UnliftBetweenLiftTypes ==
    [][ (Honored /\ honored_lift # "none") => call'.lift_type = honored_lift ]_vars

\* C8 as stated: of the lift() calls made before the next unlift(), only the first
\* performs a lift, also when Z was moved with travel_to_z() in between.
C8_OnlyFirstLift ==
    [][ (call'.op = "lift" /\ honored_lift # "none") => ~Honored ]_vars

\* The moves a travel_to_xyz puts before its final travel line.
HasArcMove(o) == \E i \in 1 .. Len(o) : IsArc(o[i])
SlopeMoves(o) == {i \in 1 .. Len(o) - 1 : o[i].cmd = "G1"}

\* A normal lift() that is honored is applied inside lift() as one Z move.
NormalLiftApplied ==
    (Honored /\ call'.lift_type = "NormalLift")
    => ( /\ out' = <<G1_Z_F(m_pos.z + z_hop, "lift Z")>>
         /\ m_pos'.z = m_pos.z + z_hop
         /\ m_lifted' = z_hop
         /\ m_to_lift' = 0 )

\* C7 as stated: a normal lift is applied immediately inside lift() as a Z move; a pending
\* spiral lift makes the next travel_to_xyz emit the helical arc and never the slope move;
\* a pending lazy lift makes it emit at most the slope move and never the arc; and the
\* pending request is consumed (m_to_lift = 0) by that call.
C7_OneLiftStrategy_Original ==
    [][ /\ NormalLiftApplied
        /\ (call'.op = "travel_to_xyz" /\ m_to_lift # 0)
           => ( /\ m_to_lift' = 0
                /\ m_to_lift_type = "SpiralLift"
                   => (HasArcMove(out') /\ SlopeMoves(out') = {})
                /\ m_to_lift_type = "LazyLift"
                   => (~HasArcMove(out') /\ Cardinality(SlopeMoves(out')) <= 1) )
      ]_vars

\* C7, amended: a normal lift is applied immediately inside lift() as a Z move.  A pending
\* lift above EPSILON is consumed (m_to_lift = 0) by the next travel_to_xyz; if it is a
\* spiral lift, that call emits the helical arc exactly when the current position is known
\* (clear) and the travel changes X or Y, and never the slope move; if it is a lazy lift,
\* it emits at most one slope move, only under the same condition, and never the arc.  A
\* pending lift not above EPSILON is left pending by travel_to_xyz, which then emits
\* neither move.
C7_OneLiftStrategy ==
    [][ /\ NormalLiftApplied
        /\ (call'.op = "travel_to_xyz" /\ m_to_lift # 0)
           => LET moved_xy == m_pos'.x # m_pos.x \/ m_pos'.y # m_pos.y
                  known == m_is_current_pos_clear /\ moved_xy
              IN  IF m_to_lift > EPSILON
                  THEN /\ m_to_lift' = 0
                       /\ m_to_lift_type = "SpiralLift"
                          => ( /\ HasArcMove(out') <=> known
                               /\ SlopeMoves(out') = {}
                               /\ Len(out') = IF known THEN 3 ELSE 1 )
                       /\ m_to_lift_type = "LazyLift"
                          => ( /\ ~HasArcMove(out')
                               /\ Cardinality(SlopeMoves(out')) <= 1
                               /\ SlopeMoves(out') # {} => known
                               /\ Len(out') = 1 + Cardinality(SlopeMoves(out')) )
                  ELSE /\ m_to_lift' = m_to_lift
                       /\ ~HasArcMove(out')
                       /\ Len(out') = 1
      ]_vars

\* A travel_to_xyz has honored a pending spiral lift with the helical arc.
C7_Witness ==
    /\ call.op = "travel_to_xyz"
    /\ Len(out) = 3
    /\ out[1] = G17
    /\ IsArc(out[2])
    /\ out[2].Z = {m_pos.z}
    /\ m_lifted = z_hop
    /\ m_to_lift = 0

----------------------------------------------------------------------------
(* Properties of the bed-temperature deduplication, checked under SpecBed. *)

\* The call of this step asks for exactly the last issued bed command.
SameAsLastIssued ==
    /\ call'.op = "set_bed_temperature"
    /\ bed_issued # <<>>
    /\ Last(bed_issued) = [temperature |-> call'.temperature, wait |-> call'.wait]

\* C9: a set_bed_temperature(t, w) call whose temperature and wait flag both equal those
\* of the last issued bed command returns the empty string and leaves the dedup state
\* unchanged, so consecutive identical calls emit the command exactly once.
C9_BedDedup ==
    [][ SameAsLastIssued
        => ( /\ out' = NoLine
             /\ UNCHANGED <<m_last_bed_temperature, m_last_bed_temperature_reached,
                            bed_issued>> )
      ]_vars

\* A call repeating the last issued bed command has returned nothing.
C9_Witness ==
    /\ call.op = "set_bed_temperature"
    /\ out = NoLine
    /\ bed_issued # <<>>
    /\ Last(bed_issued) = [temperature |-> call.temperature, wait |-> call.wait]

\* C10: when the last issued bed command is set_bed_temperature(t, wait=false), a call
\* with the same temperature and wait=true emits again (the waiting command M190), and a
\* call with any temperature other than that of the last issued command always emits.
C10_BedWaitEmitsAgain ==
    [][ (call'.op = "set_bed_temperature" /\ bed_issued # <<>>)
        => ( /\ ( /\ ~Last(bed_issued).wait
                  /\ call'.temperature = Last(bed_issued).temperature
                  /\ call'.wait )
                => ( /\ out' = <<BedCommand("M190", call'.temperature,
                                    "set bed temperature and wait for it to be reached")>>
                     /\ m_last_bed_temperature_reached' )
             /\ call'.temperature # Last(bed_issued).temperature
                => ( /\ Len(out') = 1
                     /\ out'[1].cmd = (IF call'.wait THEN "M190" ELSE "M140")
                     /\ out'[1].S = call'.temperature
                     /\ m_last_bed_temperature' = call'.temperature
                     /\ m_last_bed_temperature_reached' = call'.wait
                     /\ bed_issued' = Append(bed_issued, [temperature |-> call'.temperature,
                                                          wait |-> call'.wait]) ) )
      ]_vars

\* A waiting command has been emitted right after a non-waiting one for the same temperature.
C10_Witness ==
    /\ call.op = "set_bed_temperature"
    /\ call.wait
    /\ Len(bed_issued) >= 2
    /\ bed_issued[Len(bed_issued) - 1] = [temperature |-> call.temperature, wait |-> FALSE]
    /\ Len(out) = 1
    /\ out[1].cmd = "M190"
    /\ out[1].S = call.temperature

----------------------------------------------------------------------------
(* Extrusion moves: the claim. *)

\* C16 as stated: for each of extrude_to_xy, extrude_to_xyz and extrude_arc_to_xy the
\* position is updated to the target, and the extruder's E advance and the E field of the
\* emitted line are skipped when the caller signals no extrusion or when dE = 0, leaving
\* the accumulated E unchanged; otherwise E advances by dE and the line carries the E field.
C16_ExtrusionSkipped ==
    [][ call'.op \in {"extrude_to_xy", "extrude_to_xyz", "extrude_arc_to_xy"}
        => /\ Len(out') = 1
           /\ out'[1].X = {m_pos'.x} /\ out'[1].Y = {m_pos'.y}
           /\ call'.op = "extrude_to_xyz" => out'[1].Z = {m_pos'.z} /\ m_pos'.z = call'.z
           /\ IF call'.force_no_extrusion \/ call'.dE = 0
              THEN m_E' = m_E /\ out'[1].E = {}
              ELSE m_E' = m_E + call'.dE /\ out'[1].E = {m_E'}
      ]_vars

----------------------------------------------------------------------------
(* Acceleration and jerk: the claims. *)

\* The value of the command a set_acceleration / set_jerk_xy call returned (the last
\* line: Klipper's ACCEL_TO_DECEL line before it carries half of it).
Carried(lines) == lines[Len(lines)].num

\* C11: set_acceleration and set_jerk_xy clamp to the configured machine maximum: when
\* the maximum is > 0 every emitted command carries a value <= the maximum and a larger
\* request is emitted as the maximum; when the maximum is 0 the requested value is
\* emitted unclamped.
C11_ClampToMaximum ==
    [][ (call'.op \in {"set_acceleration", "set_jerk_xy"} /\ out' # NoLine)
        => LET max == IF call'.op = "set_acceleration" THEN m_max_acceleration
                      ELSE m_max_jerk
           IN  IF max > 0
               THEN /\ ValuesAtMost(out', max)
                    /\ call'.value > max => Carried(out') = max
                    /\ call'.value <= max => Carried(out') = call'.value
               ELSE Carried(out') = call'.value
      ]_vars

\* A request above a non-zero maximum has been emitted as the maximum.
C11_Witness ==
    /\ call.op = "set_acceleration"
    /\ m_max_acceleration > 0
    /\ call.value > m_max_acceleration
    /\ out # NoLine
    /\ Carried(out) = m_max_acceleration

\* C12: set_acceleration and set_jerk_xy are no-ops when the value after clamping equals
\* the last emitted value: no two consecutively emitted acceleration (resp. jerk) commands
\* carry the same value, the dedup state changes only when a command is emitted, and a
\* request of 0 emits nothing and leaves the dedup state unchanged.
C12_NoOpWhenSameAsLast ==
    [][ call'.op \in {"set_acceleration", "set_jerk_xy"}
        => LET accel == call'.op = "set_acceleration"
               max == IF accel THEN m_max_acceleration ELSE m_max_jerk
               clamped == IF max > 0 /\ call'.value > max THEN max ELSE call'.value
               emitted == IF accel THEN accel_emitted ELSE jerk_emitted
           IN  /\ (emitted # {} /\ clamped \in emitted)
                   => (out' = NoLine /\ UNCHANGED <<m_last_acceleration, m_last_jerk>>)
               /\ out' # NoLine => Carried(out') \notin emitted
               /\ out' = NoLine => UNCHANGED <<m_last_acceleration, m_last_jerk>>
               /\ out' # NoLine
                   => IF accel THEN m_last_acceleration' = Carried(out') /\ UNCHANGED m_last_jerk
                      ELSE m_last_jerk' = Carried(out') /\ UNCHANGED m_last_acceleration
               /\ call'.value = 0
                   => (out' = NoLine /\ UNCHANGED <<m_last_acceleration, m_last_jerk>>)
      ]_vars

\* A non-zero jerk equal, after clamping, to the last emitted one has been requested again
\* and nothing was emitted.
C12_Witness ==
    /\ call.op = "set_jerk_xy"
    /\ call.value # 0
    /\ jerk_emitted = {clamp_to_max(call.value, m_max_jerk)}
    /\ m_last_jerk = clamp_to_max(call.value, m_max_jerk)
    /\ out = NoLine

----------------------------------------------------------------------------
(* Tool change and retraction: the claims. *)

\* The returned text holds a command line with the command word cmd.
HasCommand(lines, cmd) == \E i \in 1 .. Len(lines) : lines[i].cmd = cmd
\* A toolchange call for a configured extruder id.
ToolchangeReturned == call'.op = "toolchange" /\ call'.id \in DOMAIN m_extruders
EmitsToolSelect == HasCommand(out', toolchange_prefix(call'.id))

\* C13 as stated: toolchange(id) emits the tool-select command only when more than one
\* extruder is configured; when exactly one extruder is configured (whatever its id) it
\* only switches the active extruder and returns an empty string.
C13_ToolSelectOnlyIfSeveral_Original ==
    [][ ToolchangeReturned
        => /\ EmitsToolSelect => Cardinality(DOMAIN m_extruders) > 1
           /\ Cardinality(DOMAIN m_extruders) = 1
               => (out' = NoLine /\ m_extruders' = m_extruders)
      ]_vars

\* C13, amended: toolchange(id) emits the tool-select command exactly when some configured
\* extruder has an id above 0, also when that is the only extruder configured; when only
\* extruder 0 is configured it only switches the active extruder and returns an empty
\* string.
C13_ToolSelectOnlyIfSeveral ==
    [][ ToolchangeReturned
        => /\ EmitsToolSelect <=> (\E id \in DOMAIN m_extruders : id > 0)
           /\ EmitsToolSelect => out'[1] = Command(toolchange_prefix(call'.id),
                                                   "change extruder")
           /\ DOMAIN m_extruders = {0}
               => ( /\ out' = NoLine
                    /\ m_extruders' = m_extruders
                    /\ call'.id = 0 => m_extruder' = 0 )
      ]_vars

\* The only extruder configured, with an id above 0, has been selected and the
\* tool-select command emitted.
C13_Witness ==
    /\ call.op = "toolchange"
    /\ ~aborted
    /\ Cardinality(DOMAIN m_extruders) = 1
    /\ m_extruder = call.id
    /\ call.id > 0
    /\ HasCommand(out, toolchange_prefix(call.id))

\* C14 as stated: whenever toolchange emits the tool-select command, for every dialect the
\* newly selected extruder's accumulated E is 0 after the call regardless of its value
\* before, and in absolute-extrusion mode the reset line (G92 E0) follows the tool-select
\* line in the returned text.
C14_ResetAfterToolSelect_Original ==
    [][ (ToolchangeReturned /\ EmitsToolSelect)
        => /\ m_extruders'[m_extruder'].E = 0
           /\ ~use_relative_e_distances
               => (Len(out') = 2 /\ out'[2].cmd = "G92 E0")
      ]_vars

\* C14, amended: the same for every dialect other than Mach3, MakerWare and Sailfish (in
\* relative-extrusion mode E is reset and no reset line is emitted); for these three
\* dialects the tool-select line is emitted alone and the accumulated E of the extruders
\* is left as it was.
C14_ResetAfterToolSelect ==
    [][ (ToolchangeReturned /\ EmitsToolSelect)
        => IF gcode_flavor \in {"gcfMach3", "gcfMakerWare", "gcfSailfish"}
           THEN /\ Len(out') = 1
                /\ m_extruders' = m_extruders
           ELSE /\ m_extruders' = [m_extruders EXCEPT ![m_extruder'].E = 0]
                /\ IF use_relative_e_distances
                   THEN Len(out') = 1
                   ELSE /\ Len(out') = 2
                        /\ out'[1].cmd = toolchange_prefix(call'.id)
                        /\ out'[2] = Command("G92 E0", "reset extrusion distance")
      ]_vars

\* A tool change has reset a non-zero accumulated E and emitted the reset line after the
\* tool-select line.
C14_Witness ==
    /\ call.op = "toolchange"
    /\ ~aborted
    /\ call.E_before # {} /\ 0 \notin call.E_before
    /\ m_extruders[m_extruder].E = 0
    /\ Len(out) = 2
    /\ out[1].cmd = toolchange_prefix(call.id)
    /\ out[2].cmd = "G92 E0"

\* C15 as stated: toolchange(id) with an id in the configured extruder set makes the
\* extruder with exactly that id the active one; toolchange with an id that is not in the
\* configured set is an assertion violation and never selects a different extruder.
C15_ToolchangeSelectsExactId ==
    [][ call'.op = "toolchange"
        => IF call'.id \in DOMAIN m_extruders
           THEN ~aborted' /\ m_extruder' = call'.id
           ELSE aborted' /\ m_extruder' = m_extruder
      ]_vars

\* C17: when firmware retraction is configured, retract, retract_for_toolchange and
\* unretract never emit an E move: the extruder is asked to retract a fixed length of 1
\* whatever the configured length (also 0), the dialect's firmware code (G10 / G11, or
\* G22 / G23 for Machinekit) is emitted whenever the extruder reports a non-zero delta,
\* and no retract code is emitted when it reports a zero delta.
C17_FirmwareRetraction ==
    [][ ( /\ use_firmware_retraction
          /\ call'.op \in {"retract", "retract_for_toolchange", "unretract"}
          /\ ~InvalidExtruder )
        => LET before == m_extruders[m_extruder]
               after == m_extruders'[m_extruder]
               machinekit == gcode_flavor = "gcfMachinekit"
           IN  /\ \A i \in 1 .. Len(out') : out'[i].E = {} /\ out'[i].cmd # "G1"
               /\ IF call'.op = "unretract"
                  THEN /\ after.retracted = 0
                       /\ (before.retracted + before.restart_extra # 0)
                          <=> HasCommand(out', IF machinekit THEN "G23" ELSE "G11")
                       /\ ~HasCommand(out', IF machinekit THEN "G11" ELSE "G23")
                  ELSE /\ after.retracted = Max(before.retracted, 1)
                       /\ (after.retracted - before.retracted # 0)
                          <=> HasCommand(out', IF machinekit THEN "G22" ELSE "G10")
                       /\ ~HasCommand(out', IF machinekit THEN "G10" ELSE "G22")
      ]_vars

\* With firmware retraction and a configured length of 0, a retract has emitted the
\* firmware's retract code and the extruder holds the length 1 as retracted.
C17_Witness ==
    /\ call.op = "retract"
    /\ use_firmware_retraction
    /\ retraction_length = 0
    /\ ~InvalidExtruder
    /\ m_extruders[m_extruder].retracted = 1
    /\ HasCommand(out, IF gcode_flavor = "gcfMachinekit" THEN "G22" ELSE "G10")

----------------------------------------------------------------------------
(* The numeric formatter: the claims. *)

\* The characters emitted after the axis letter.
Token == SubSeq(out, 3, Len(out))
IsDigit(c) == \E d \in 1 .. 10 : DigitChars[d] = c
DigitValue(c) == (CHOOSE d \in 1 .. 10 : DigitChars[d] = c) - 1
\* The number a sequence of digit characters denotes (0 for none).
RECURSIVE Number(_)
Number(digits) ==
    IF digits = <<>> THEN 0
    ELSE 10 * Number(SubSeq(digits, 1, Len(digits) - 1)) + DigitValue(digits[Len(digits)])

\* A decimal number as a parser reads it: an optional '-', digits, and optionally a '.'
\* followed by digits; at least one digit in all.
Unsigned(text) == IF text # <<>> /\ text[1] = "-" THEN SubSeq(text, 2, Len(text)) ELSE text
PointAt(text) == {i \in 1 .. Len(text) : text[i] = "."}
IntegerPart(text) ==
    IF PointAt(text) = {} THEN text ELSE SubSeq(text, 1, (CHOOSE i \in PointAt(text) : TRUE) - 1)
FractionPart(text) ==
    IF PointAt(text) = {} THEN <<>>
    ELSE SubSeq(text, (CHOOSE i \in PointAt(text) : TRUE) + 1, Len(text))
IsDecimal(text) ==
    LET u == Unsigned(text)
    IN  /\ Cardinality(PointAt(u)) <= 1
        /\ \A i \in 1 .. Len(u) : u[i] = "." \/ IsDigit(u[i])
        /\ \E i \in 1 .. Len(u) : IsDigit(u[i])

\* C18 as stated: the formatter guarantees at least one digit before the decimal point:
\* for every value and every digit count 0..9 the emitted token never has the decimal
\* point directly after the axis letter or after the minus sign.
C18_DigitBeforePoint ==
    call.op = "emit_axis"
    => /\ Token # <<>>
       /\ Token[1] # "."
       /\ ~(Len(Token) >= 2 /\ Token[1] = "-" /\ Token[2] = ".")

\* C19: for every scaled value v_int = round(v * 10^d) with d in 0..9, the text emitted,
\* parsed back as a decimal number, equals v_int / 10^d (sign preserved), and the text has
\* no trailing zero after the decimal point and no trailing decimal point.
C19_RoundTrip ==
    call.op = "emit_axis"
    => LET v_int == round(call.v)
           u == Unsigned(Token)
           fraction == FractionPart(u)
           magnitude == IF v_int < 0 THEN -v_int ELSE v_int
       IN  /\ out[1] = " " /\ out[2] = call.axis
           /\ IsDecimal(Token)
           /\ Len(fraction) <= call.digits
           /\ Number(IntegerPart(u) \o fraction \o Zeros(call.digits - Len(fraction)))
              = magnitude
           /\ (Token[1] = "-") <=> (v_int < 0)
           /\ Token[Len(Token)] # "."
           /\ PointAt(Token) # {} => Token[Len(Token)] # "0"

\* A negative value with an integer part, a fraction and trailing zeros to strip has
\* been formatted.
C19_Witness ==
    /\ call.op = "emit_axis"
    /\ call.digits = 3
    /\ call.v = -12500
    /\ Token = <<"-", "1", ".", "2", "5">>

----------------------------------------------------------------------------
(* The spiral vase transform: the claims. *)

\* The value the last move of a layer gives to an axis, or the value held before.
LastOf(gcode, axis, before) ==
    LET moves == {i \in 1 .. Len(gcode) :
                     gcode[i].cmd \in {"G0", "G1", "G92"} /\ gcode[i][axis] # {}}
    IN  IF moves = {} THEN before
        ELSE Val(gcode[CHOOSE i \in moves : \A j \in moves : j <= i][axis])

\* C20: when the spiral vase transform is disabled, process_layer returns the input layer
\* text unchanged for every input (with or without the last-layer flag), still feeds it
\* to the position tracker, and leaves the carried previous-layer path untouched.
C20_DisabledPassThrough ==
    [][ (call'.op = "process_layer" /\ ~m_enabled)
        => /\ out' = call'.gcode
           /\ m_previous_layer' = m_previous_layer
           /\ m_reader' = [x |-> LastOf(call'.gcode, "X", m_reader.x),
                           y |-> LastOf(call'.gcode, "Y", m_reader.y),
                           z |-> LastOf(call'.gcode, "Z", m_reader.z),
                           e |-> LastOf(call'.gcode, "E", m_reader.e)]
      ]_vars

\* A last layer has passed the disabled transform unchanged while a path recorded by an
\* earlier, enabled layer is carried, and the reader stands at the layer's end.
C20_Witness ==
    /\ call.op = "process_layer"
    /\ ~m_enabled
    /\ call.last_layer
    /\ out = call.gcode
    /\ Len(out) > 3
    /\ m_previous_layer # {} /\ m_previous_layer # {<<>>}
    /\ m_reader.z = 2 * LayerHeight

----------------------------------------------------------------------------
(* SpiralVase: the rewritten layer. *)

\* The lines of a layer as the reader at r meets them: each with its kind ("z" for a G1
\* with a Z field, "extrude" and "travel" for the other G1 moves of non-zero XY length,
\* "other" for the rest), its XY length and the extruding XY length l up to and
\* including it.
RECURSIVE Classify(_, _, _, _)
Classify(r, gcode, i, l) ==
    IF i > Len(gcode) THEN <<>>
    ELSE LET line == gcode[i]
             rb == reader_before(r, line)
             d == dist_XY(line, rb)
             kind == IF line.cmd = "G1" /\ line.Z # {} THEN "z"
                     ELSE IF line.cmd = "G1" /\ d > 0
                     THEN (IF extruding(line, rb) THEN "extrude" ELSE "travel")
                     ELSE "other"
             upto == IF kind = "extrude" THEN l + d ELSE l
         IN  <<[kind |-> kind, dist |-> d, l |-> upto, line |-> line]>>
             \o Classify(update_coordinates(rb, line), gcode, i + 1, upto)

IsExtrude(c) == c.kind = "extrude"
IsTravel(c) == c.kind = "travel"
IsKept(c) == c.kind # "travel"
IsZMove(c) == c.kind = "z"
\* The layer handed to the last process_layer call, classified from the reader before it.
Layer == Classify(m_reader, call'.gcode, 1, 0)
\* The lines of the layer that are not travel moves.
Kept == SelectSeq(Layer, IsKept)
\* The extruding horizontal moves of the layer.
Moves == SelectSeq(Layer, IsExtrude)
\* L: the total extruding horizontal length of the layer.
TotalLength == IF Moves = <<>> THEN 0 ELSE Moves[Len(Moves)].l
\* H: the height the layer climbs.
Climbed == m_reader'.z - m_reader.z
\* The target of the first Z move of the layer.
FirstZTarget == Val(SelectSeq(Layer, IsZMove)[1].line.Z)
\* An enabled process_layer call has just returned.
EnabledLayer == call'.op = "process_layer" /\ m_enabled
\* The main pass of the returned text: one line for each line that is not a travel move.
MainPass == SubSeq(out', 1, Len(Kept))
\* What follows the main pass.
SecondPass == SubSeq(out', Len(Kept) + 1, Len(out'))
\* The positions of the main pass that hold the extruding horizontal moves, in order.
MovePositions == {j \in 1 .. Len(Kept) : Kept[j].kind = "extrude"}
\* The number of extruding moves among the first j kept lines.
MoveNumber(j) == Cardinality({i \in 1 .. j : Kept[i].kind = "extrude"})
\* The Z values of the lines of a text that carry one, in order.
ZValues(gcode) == [i \in 1 .. Len(SelectSeq(gcode, HasZ)) |-> Val(SelectSeq(gcode, HasZ)[i].Z)]

\* C21: with spiral vase enabled and smoothing off, each rewritten extruding horizontal
\* move gets Z = start_z + (l / L) * H, where l is the extruding XY length up to and
\* including the move, L the layer's total, H the height climbed and start_z the first
\* Z move's target minus H.
C21_ZRamp ==
    [][ (EnabledLayer /\ ~m_smooth_spiral)
        => /\ Len(out') >= Len(Kept)
           /\ \A j \in MovePositions :
                  MainPass[j].Z = {(FirstZTarget - Climbed)
                                   + Scale(Climbed, Kept[j].l, TotalLength)}
      ]_vars

\* The second layer has been rewritten without smoothing: its four sides end at a quarter,
\* a half, three quarters and the whole of the layer height above the first layer.
C21_Witness ==
    /\ call.op = "process_layer"
    /\ m_enabled /\ ~m_smooth_spiral
    /\ m_reader.z = 2 * LayerHeight
    /\ ZValues(out) = <<20, 25, 30, 35, 40>>

\* C22: in the rewritten layer the first Z move is replaced with a move to the previous
\* layer's top Z (its target minus the Z climbed in this layer), and all other lines that
\* are not horizontal moves are copied unchanged and in their original order.
C22_FirstZAndCopies ==
    [][ EnabledLayer
        => /\ Len(out') >= Len(Kept)
           /\ \A j \in 1 .. Len(Kept) :
                  /\ Kept[j].kind = "z" =>
                         MainPass[j] = [Kept[j].line EXCEPT !.Z = {Val(@) - Climbed}]
                  /\ Kept[j].kind = "other" => MainPass[j] = Kept[j].line
      ]_vars

\* The second layer has been rewritten: its Z move now goes to the top of the first layer,
\* and the retraction and the fan command that end it were copied.
C22_Witness ==
    /\ call.op = "process_layer"
    /\ m_enabled
    /\ Len(call.gcode) = 8
    /\ call.gcode[1].Z = {2 * LayerHeight}
    /\ out[1] = [call.gcode[1] EXCEPT !.Z = {LayerHeight}]
    /\ \E j \in 2 .. Len(out) - 1 : out[j] = call.gcode[7] /\ out[j + 1] = call.gcode[8]

\* C23: for every layer processed with spiral vase enabled the Z values of the emitted
\* moves never decrease within the layer: they start at the previous layer's top Z, and
\* the last extruding move ends at the layer's original target Z.
C23_ZMonotone ==
    [][ EnabledLayer
        => LET zs == ZValues(out')
           IN  /\ Len(zs) > 0
               /\ zs[1] = m_reader.z
               /\ \A i \in 1 .. Len(zs) - 1 : zs[i] <= zs[i + 1]
               /\ MovePositions # {} => zs[Len(zs)] = FirstZTarget
      ]_vars

\* The first layer has been rewritten in the transform's first, enabled call: its Z rises
\* from the bed to the layer height.
C23_Witness ==
    /\ call.op = "process_layer"
    /\ m_enabled
    /\ m_reader.z = LayerHeight
    /\ ZValues(out) = <<0, 5, 10, 15, 20>>

\* C24: with spiral vase enabled every non-extruding horizontal G1 move of the layer is
\* dropped: the returned text holds no line for it, in the main pass or after it, while
\* the reader still advances over it; every extruding horizontal move has exactly one
\* line in the main pass, in input order.
C24_TravelDropped ==
    [][ EnabledLayer
        => /\ \A i \in 1 .. Len(Layer) :
                  Layer[i].kind = "travel" => \A j \in 1 .. Len(out') : out'[j] # Layer[i].line
           /\ m_reader' = [x |-> LastOf(call'.gcode, "X", m_reader.x),
                           y |-> LastOf(call'.gcode, "Y", m_reader.y),
                           z |-> LastOf(call'.gcode, "Z", m_reader.z),
                           e |-> LastOf(call'.gcode, "E", m_reader.e)]
           /\ Len(out') >= Len(Kept)
           /\ \A j \in MovePositions :
                  /\ MainPass[j].cmd = "G1"
                  /\ MainPass[j].X # {} /\ MainPass[j].Y # {}
                  /\ MainPass[j].Z # {} /\ MainPass[j].E # {}
           /\ Cardinality({j \in 1 .. Len(MainPass) : MainPass[j].X # {} /\ MainPass[j].Z # {}})
                  = Len(Moves)
      ]_vars

\* A last layer whose loop starts away from where the reader stood has been rewritten:
\* the travel to the loop's corner is in neither pass, and the reader stands at the corner.
C24_Witness ==
    /\ call.op = "process_layer"
    /\ m_enabled
    /\ call.last_layer /\ use_relative_e_distances
    /\ Len(call.gcode) = 8
    /\ call.gcode[2].X = {20}
    /\ \A j \in 1 .. Len(out) : out[j] # call.gcode[2]
    /\ Len(out) > 7
    /\ m_reader.x = 20 /\ m_reader.y = 20

\* The XY point a move line names.
PointOf(line) == SpiralPoint(line_x(line), line_y(line))
\* The path carried into the call is close to the point of the j-th kept line: a nearest
\* point exists on it, nearer than the smoothing distance, and smoothing is on.
Smoothed(j) ==
    /\ m_smooth_spiral
    /\ m_previous_layer # {}
    /\ LET nearest == nearest_point_on_polygon(PointOf(Kept[j].line), Val(m_previous_layer))
       IN  nearest.found /\ nearest.dist < max_xy_dist_for_smoothing
\* The point the move before the j-th kept line was emitted with; for the first move,
\* the last point of the path carried into the call.
PointBefore(j) ==
    IF MoveNumber(j) = 1
    THEN Val(m_previous_layer)[Len(Val(m_previous_layer))]
    ELSE PointOf(MainPass[CHOOSE i \in MovePositions : i < j /\ MoveNumber(i) = MoveNumber(j) - 1])
\* The extrusion e of the j-th kept line after smoothing: scaled by the length of the
\* emitted move over the length of the original one when the move is smoothed.
AfterSmoothing(j, e) ==
    IF Smoothed(j)
    THEN Div(e * distance(PointBefore(j), PointOf(MainPass[j])), Kept[j].dist)
    ELSE e
\* The extrusion of the j-th kept line ramped in: original_E * f.
RampedIn(j) == Scale(line_e(Kept[j].line), Kept[j].l, TotalLength)
\* The extrusion of the j-th kept line ramped out: original_E * (1 - f).
RampedOut(j) == Scale(line_e(Kept[j].line), TotalLength - Kept[j].l, TotalLength)

\* C25 (as stated): in the transition-in layer with relative extrusion each extruding
\* horizontal move's extrusion equals original_E * f; with absolute extrusion
\* transition-in is off and E is left unscaled.
C25_TransitionIn_Original ==
    [][ (EnabledLayer /\ m_transition_layer)
        => /\ Len(out') >= Len(Kept)
           /\ \A j \in MovePositions :
                  MainPass[j].E = {IF use_relative_e_distances THEN RampedIn(j)
                                   ELSE line_e(Kept[j].line)}
      ]_vars

\* C25 (amended): in the transition-in layer with relative extrusion each extruding
\* horizontal move's extrusion equals original_E * f, multiplied for an XY-smoothed move
\* by the length of the smoothed move over the length of the original move; with absolute
\* extrusion transition-in is off and only the smoothing ratio is applied.
C25_TransitionIn ==
    [][ (EnabledLayer /\ m_transition_layer)
        => /\ Len(out') >= Len(Kept)
           /\ \A j \in MovePositions :
                  MainPass[j].E = {AfterSmoothing(j, IF use_relative_e_distances
                                                     THEN RampedIn(j)
                                                     ELSE line_e(Kept[j].line))}
      ]_vars

\* The first layer after enabling has been rewritten with relative extrusion: the four
\* sides carry a quarter, a half, three quarters and the whole of their extrusion.
C25_Witness ==
    /\ call.op = "process_layer"
    /\ m_enabled /\ m_transition_layer /\ use_relative_e_distances
    /\ Len(call.gcode) = 8
    /\ \A k \in 1 .. 4 : call.gcode[k + 2].E = {ExtrusionPerSide}
    /\ \E j \in 1 .. Len(out) - 3 :
           \A k \in 1 .. 4 : out[j + k - 1].E = {(k * ExtrusionPerSide) \div 4}

IsMoveLine(line) == line.cmd = "G1" /\ line.X # {} /\ line.E # {}
\* The extruding horizontal moves of the layer, each with its extrusion ramped out.
RampedOutMoves ==
    [k \in 1 .. Len(Moves) |->
        LET j == CHOOSE i \in MovePositions : MoveNumber(i) = k
        IN  [Kept[j].line EXCEPT !.E = {RampedOut(j)}]]
\* The last-layer call that is not the transition-in layer, with relative extrusion.
TransitionOutLayer ==
    EnabledLayer /\ call'.last_layer /\ use_relative_e_distances /\ ~m_transition_layer

\* C26 (as stated): in the transition-out layer the returned text is the rewritten layer
\* followed by a second pass that holds one line per extruding horizontal move, with
\* extrusion original_E * (1 - f) and no Z; in the main pass the extrusion of those moves
\* is left unscaled.
C26_TransitionOut_Original ==
    [][ TransitionOutLayer
        => /\ Len(out') >= Len(Kept)
           /\ SelectSeq(SecondPass, IsMoveLine) = RampedOutMoves
           /\ \A i \in 1 .. Len(SecondPass) : SecondPass[i].Z = {}
           /\ \A j \in MovePositions : MainPass[j].E = Kept[j].line.E
      ]_vars

\* C26 (amended): in the transition-out layer the returned text is the rewritten layer
\* followed by a second pass that holds one line per extruding horizontal move, with
\* extrusion original_E * (1 - f) and no Z; in the main pass the extrusion of those moves
\* is not ramped, and is multiplied for an XY-smoothed move by the length of the smoothed
\* move over the length of the original move.
C26_TransitionOut ==
    [][ TransitionOutLayer
        => /\ Len(out') >= Len(Kept)
           /\ SelectSeq(SecondPass, IsMoveLine) = RampedOutMoves
           /\ \A i \in 1 .. Len(SecondPass) : SecondPass[i].Z = {}
           /\ \A j \in MovePositions :
                  MainPass[j].E = {AfterSmoothing(j, line_e(Kept[j].line))}
      ]_vars

\* A last layer has been rewritten with relative extrusion: after the main pass, whose
\* first side keeps its extrusion, the four sides follow again with three quarters, a
\* half, a quarter and nothing of their extrusion.
C26_Witness ==
    /\ call.op = "process_layer"
    /\ m_enabled /\ call.last_layer /\ use_relative_e_distances /\ ~m_transition_layer
    /\ Len(call.gcode) = 8
    /\ Len(out) > 8
    /\ out[2].E = {ExtrusionPerSide} /\ out[2].Z # {}
    /\ \E j \in 6 .. Len(out) - 3 :
           \A k \in 1 .. 4 :
               /\ out[j + k - 1].E = {((4 - k) * ExtrusionPerSide) \div 4}
               /\ out[j + k - 1].X = call.gcode[k + 2].X
               /\ out[j + k - 1].Z = {}

\* C27 (as stated): with XY smoothing enabled, if the nearest distance from the current
\* point to the previous layer's path is at least the smoothing distance, or no nearest
\* point exists (the path has fewer than 2 points or there is no previous path), the
\* emitted move keeps the unmodified X, Y and extrusion: only Z is rewritten.
C27_TooFarUnsmoothed_Original ==
    [][ (EnabledLayer /\ m_smooth_spiral)
        => /\ Len(out') >= Len(Kept)
           /\ \A j \in MovePositions :
                  ~Smoothed(j) => MainPass[j] = [Kept[j].line EXCEPT !.Z = MainPass[j].Z]
      ]_vars

\* C27 (amended): with XY smoothing enabled, if the nearest distance is at least the
\* smoothing distance or no nearest point exists, the emitted move keeps the unmodified X
\* and Y and its extrusion is not rescaled to a smoothed length: apart from Z only the
\* ramp of the transition-in layer (original_E * f, relative extrusion) is applied.
C27_TooFarUnsmoothed ==
    [][ (EnabledLayer /\ m_smooth_spiral)
        => /\ Len(out') >= Len(Kept)
           /\ \A j \in MovePositions :
                  ~Smoothed(j) =>
                      MainPass[j] = [Kept[j].line EXCEPT
                                        !.Z = MainPass[j].Z,
                                        !.E = {IF m_transition_layer /\ use_relative_e_distances
                                               THEN RampedIn(j) ELSE Val(@)}]
      ]_vars

\* With smoothing on and a path carried into the call, the second layer has been
\* rewritten, a loop shifted beyond the smoothing distance: its first side keeps its end
\* point.
C27_Witness ==
    /\ call.op = "process_layer"
    /\ m_enabled /\ m_smooth_spiral
    /\ vectors = <<1, 0>>
    /\ Len(call.gcode) = 8
    /\ call.gcode[3].X = {20 + LoopSide} /\ call.gcode[3].Y = {20}
    /\ m_reader.z = 2 * LayerHeight
    /\ m_previous_layer = {<<SpiralPoint(120, 20), SpiralPoint(120, 120),
                             SpiralPoint(20, 120), SpiralPoint(20, 20)>>}
    /\ \E j \in 1 .. Len(out) :
           out[j].X = {120} /\ out[j].Y = {20} /\ out[j].Z = {25}

\* The points of the extruding horizontal moves of the layer, in order.
RecordedPoints ==
    [k \in 1 .. Len(Moves) |-> PointOf(Moves[k].line)]

\* C28: after every enabled process_layer call the carried previous-layer path is exactly
\* the sequence of points recorded during that call (empty when smoothing is off) and the
\* path carried before the call is discarded; over any sequence of layers every vector
\* that is no longer carried was deleted exactly once, the carried one was not deleted,
\* and no vector is read after it was deleted.
C28_PathCarryOver ==
    [][ EnabledLayer
        => /\ m_previous_layer' = {IF m_smooth_spiral THEN RecordedPoints ELSE <<>>}
           /\ m_previous_layer_at' = Len(vectors')
           /\ m_previous_layer_at' # m_previous_layer_at
           /\ \A at \in 1 .. Len(vectors') :
                  vectors'[at] = (IF at = m_previous_layer_at' THEN 0 ELSE 1)
           /\ ~read_deleted'
      ]_vars

\* Two layers have been rewritten with smoothing: the path of the second one is carried
\* and the vector that held the path of the first one has been deleted.
C28_Witness ==
    /\ call.op = "process_layer"
    /\ m_enabled /\ m_smooth_spiral
    /\ vectors = <<1, 0>>
    /\ m_previous_layer_at = 2
    /\ m_previous_layer # {} /\ m_previous_layer # {<<>>}
    /\ ~read_deleted

----------------------------------------------------------------------------
(* A further property of the bed-temperature deduplication, checked under SpecBed. *)

\* C29: after a waiting bed command set_bed_temperature(t, wait=true) has been issued, a
\* following set_bed_temperature(t, wait=false) with the same temperature emits nothing and
\* leaves the dedup state (last temperature, reached flag) unchanged, although its wait
\* flag differs from that of the last issued command.
C29_NoWaitAfterWait ==
    [][ ( /\ call'.op = "set_bed_temperature"
          /\ bed_issued # <<>>
          /\ Last(bed_issued).wait
          /\ call'.temperature = Last(bed_issued).temperature
          /\ ~call'.wait )
        => ( /\ out' = NoLine
             /\ UNCHANGED <<m_last_bed_temperature, m_last_bed_temperature_reached,
                            bed_issued>> )
      ]_vars

\* A call without wait for the temperature of the waiting command issued last has
\* returned nothing, and the temperature is still remembered as reached.
C29_Witness ==
    /\ call.op = "set_bed_temperature"
    /\ ~call.wait
    /\ out = NoLine
    /\ bed_issued # <<>>
    /\ Last(bed_issued) = [temperature |-> call.temperature, wait |-> TRUE]
    /\ m_last_bed_temperature = call.temperature
    /\ m_last_bed_temperature_reached

----------------------------------------------------------------------------
(* A further property of the lift state machine, checked under Spec. *)

\* The travel_to_xyz of this step goes to a point other than the current position.
TravelsElsewhere ==
    /\ call'.op = "travel_to_xyz"
    /\ m_pos # [x |-> m_pos'.x, y |-> m_pos'.y, z |-> call'.z]

\* What a travel_to_xyz(p) does with a pending hop m_to_lift: below current Z + hop the
\* writer ends at Z + hop with lifted = Z + hop - p.z, from there on up it ends at p.z
\* with nothing lifted; either way nothing is pending afterwards.
PendingHopTaken ==
    /\ m_to_lift' = 0
    /\ IF call'.z < m_pos.z + m_to_lift
       THEN /\ m_pos'.z = m_pos.z + m_to_lift
            /\ m_lifted' = m_pos.z + m_to_lift - call'.z
       ELSE /\ m_pos'.z = call'.z
            /\ m_lifted' = 0
\* The unlift() of this step follows a travel_to_xyz(p) that left a lift requested as lazy
\* or spiral applied: it moves Z to exactly p.z.
UnliftRestoresTarget ==
    ( /\ call.op = "travel_to_xyz"
      /\ honored_lift \in {"LazyLift", "SpiralLift"}
      /\ m_lifted > 0
      /\ call'.op = "unlift" )
    => ( /\ out' = <<G1_Z_F(call.z, "restore layer Z")>>
         /\ m_pos'.z = call.z
         /\ m_lifted' = 0 )

\* C30 (as stated): when a lazy or spiral lift is pending with hop h and travel_to_xyz(p)
\* is called for a p other than the current position, then for p.z < current Z + h the
\* writer ends at Z = old Z + h with lifted = old Z + h - p.z, so that the next unlift()
\* moves Z to exactly p.z; for p.z >= old Z + h the pending request is consumed without
\* any lift (lifted stays 0) and the writer ends at p.z.
C30_PendingHop_Original ==
    [][ /\ (TravelsElsewhere /\ m_to_lift > 0) => PendingHopTaken
        /\ UnliftRestoresTarget
      ]_vars

\* C30 (amended): the same for a pending hop h above EPSILON; a pending hop not above
\* EPSILON is ignored by travel_to_xyz and stays pending.
C30_PendingHop ==
    [][ /\ (TravelsElsewhere /\ m_to_lift > EPSILON) => PendingHopTaken
        /\ (call'.op = "travel_to_xyz" /\ m_to_lift > 0 /\ m_to_lift <= EPSILON)
               => m_to_lift' = m_to_lift /\ m_lifted' = 0
        /\ UnliftRestoresTarget
      ]_vars

\* A travel_to_xyz to a lower Z has taken a pending hop: the writer stands a hop above
\* where it was, and the lift amount leads back to the travel's target Z.
C30_Witness ==
    /\ call.op = "travel_to_xyz"
    /\ honored_lift \in {"LazyLift", "SpiralLift"}
    /\ m_to_lift = 0
    /\ m_lifted > z_hop
    /\ m_pos.z - m_lifted = call.z
    /\ m_pos.z = call.nominal_z + z_hop

\* C31: extrude_to_xyz cancels an applied lift without emitting a restoring move (lifted
\* is 0 afterwards, so a following unlift() emits nothing), whereas extrude_to_xy,
\* extrude_arc_to_xy and travel_to_xy leave Z, the lifted amount and the pending-lift
\* request unchanged.
C31_ExtrudeXYZCancelsLift ==
    [][ /\ call'.op = "extrude_to_xyz"
           => ( /\ m_lifted' = 0
                /\ Len(out') = 1
                /\ out'[1].cmd = "G1" /\ out'[1].Z = {call'.z} /\ HasXY(out'[1])
                /\ m_pos'.z = call'.z )
        /\ (call.op = "extrude_to_xyz" /\ call'.op = "unlift")
           => ( /\ out' = NoLine
                /\ m_pos'.z = m_pos.z )
        /\ call'.op \in {"extrude_to_xy", "extrude_arc_to_xy", "travel_to_xy"}
           => ( /\ m_pos'.z = m_pos.z
                /\ m_lifted' = m_lifted
                /\ m_to_lift' = m_to_lift
                /\ m_to_lift_type' = m_to_lift_type )
      ]_vars

\* An extrude_to_xyz made with a lift applied has returned its one move, to a Z other
\* than the nominal one, and nothing is lifted any more.
C31_Witness ==
    /\ call.op = "extrude_to_xyz"
    /\ call.lifted > 0
    /\ call.z # call.nominal_z
    /\ m_lifted = 0
    /\ Len(out) = 1
    /\ m_pos.z = call.z

----------------------------------------------------------------------------
(* A further property of the extruders, checked under SpecTool. *)

\* C32: after any sequence of set_extruders and toolchange calls the active-extruder
\* reference is either unset or refers to an element of the current extruder collection
\* whose id is the id of the last toolchange; it is never left referring to an extruder of
\* a collection that set_extruders has since replaced.  Step by step: a toolchange that
\* returns leaves the reference on the extruder of its id, and set_extruders leaves it
\* unset or on the extruder, of the new collection, with the id it referred to.
C32_ActiveExtruderValid ==
    [][ /\ (call'.op = "toolchange" /\ ~aborted')
           => (m_extruder' \in DOMAIN m_extruders' /\ m_extruder' = call'.id)
        /\ call'.op = "set_extruders"
           => \/ m_extruder' = nullptr
              \/ (m_extruder' \in DOMAIN m_extruders' /\ m_extruder' = m_extruder)
      ]_vars

IsOther(c) == c.kind = "other"
\* The lines of the layer that are neither Z moves nor horizontal moves, in order.
PassThroughLines == [i \in 1 .. Len(SelectSeq(Layer, IsOther)) |-> SelectSeq(Layer, IsOther)[i].line]
\* The enabled call whose layer is both the transition-in layer and the last layer, with
\* relative extrusion.
BothTransitionsLayer ==
    EnabledLayer /\ m_transition_layer /\ call'.last_layer /\ use_relative_e_distances

----------------------------------------------------------------------------
(* Properties of the Printago panel, checked under SpecPanel.  A step of   *)
(* a handler is a step with call'.op its name: the unprimed variables are  *)
(* the panel before the event, the primed ones the panel after it, out'    *)
(* the messages posted and issued' what was asked of the printers and the  *)
(* plater.                                                                 *)

IsCommand == call'.op = "HandlePrintagoCommand"
IsCompletion == call'.op = "OnSlicingProcessCompleted"
\* The command names a printer of the machine list.
FindsPrinter ==
    /\ <<"printer_id">> \in DOMAIN call'.event.parameters
    /\ call'.event.parameters[<<"printer_id">>] \in Printers
\* A start_print_bbl command for a known printer has been handled.
IsStartPrint ==
    /\ IsCommand
    /\ call'.event.commandType = "printer_control"
    /\ call'.event.action = "start_print_bbl"
    /\ FindsPrinter
\* A download, a file load or a slicing is among what was asked.
StartsWork(asked) ==
    \E k \in 1 .. Len(asked) :
        asked[k].what \in {"reset", "get", "load_project", "load_files", "select_plate",
                           "reslice"}
\* Exactly one message is posted, of this type.
OnlyOne(posted, type) == Len(posted) = 1 /\ posted[1].type = type
\* The only message posted is an error with this detail.
OnlyError(posted, detail) ==
    Len(posted) = 1 /\ posted[1].type = "error" /\ posted[1].detail = detail
\* The panel is ready for a job and records none.
IdleAfter ==
    /\ m_can_process_job'
    /\ jobPrinterId' = "" /\ jobCommand' = <<>> /\ jobLocalFilePath' = ""

\* C34: at most one print job is in progress.  A start_print_bbl command handled while
\* can_process_job is false is answered with the one error "busy with current job - check
\* status", asks for no download, file load or slicing and leaves the panel blocked and
\* the job in progress in place; a download, a file load or a slicing is asked for only
\* by a start_print_bbl command that found can_process_job true; the panel stops being
\* ready only by such a command, which leaves can_process_job false when it has started
\* the slicing.
C34_OneJobAtATime ==
    [][ /\ (IsStartPrint /\ ~m_can_process_job)
           => /\ OnlyError(out', <<"busy with current job - check status">>)
              /\ ~StartsWork(issued')
              /\ ~m_can_process_job'
              /\ accepted_job' = accepted_job /\ reslicing' = reslicing
        /\ (IsCommand /\ StartsWork(issued')) => (IsStartPrint /\ m_can_process_job)
        /\ (IsCommand /\ Reslices(issued')) => (~m_can_process_job' /\ accepted_job = <<>>)
        /\ (m_can_process_job /\ ~m_can_process_job') => (IsStartPrint /\ Reslices(issued'))
      ]_vars

\* A second start_print_bbl command has been refused while the job of the first one was
\* being sliced.
C34_Witness ==
    /\ call.op = "HandlePrintagoCommand"
    /\ call.event.action = "start_print_bbl"
    /\ ~m_can_process_job /\ reslicing /\ accepted_job # <<>>
    /\ issued = <<>>
    /\ OnlyError(out, <<"busy with current job - check status">>)

\* C35: a start_print_bbl command that is refused as busy leaves the job printer id, the
\* job command and the local file path of the job in progress as they are, and when the
\* slicing of a job completes every message posted and the printer selected are those of
\* the command that started the job.
C35_BusyLeavesJob ==
    [][ /\ (IsStartPrint /\ ~m_can_process_job)
           => /\ jobPrinterId' = jobPrinterId
              /\ jobCommand' = jobCommand
              /\ jobLocalFilePath' = jobLocalFilePath
        /\ (IsCompletion /\ accepted_job # <<>>)
           => /\ \A k \in 1 .. Len(out') :
                     out'[k].printer_id = accepted_job[1] /\ out'[k].command = accepted_job[2]
              /\ \A k \in 1 .. Len(issued') :
                     issued'[k].what = "set_selected_machine"
                     => issued'[k].args = <<accepted_job[1]>>
      ]_vars

\* How a handled start_print_bbl command would fare: whether it has a url with a file
\* name, the download succeeds and the file loads.
CanSlice ==
    /\ uriFileName(Param(call'.event.parameters, <<"url">>)) # ""
    /\ call'.env.download_ok
    /\ call'.env.load_ok

\* C36: once a start_print_bbl command is accepted every outcome unblocks the panel.  A
\* missing url, a failed download and a failed file load post one error and leave the
\* panel ready with the job state cleared, in the same handler; otherwise the slicing is
\* started.  The panel is blocked only while a slicing is under way, and the
\* slicing-completed event, however the slicing ended, leaves the panel ready with the
\* job state cleared; when it finds the panel ready it posts no message.
C36_EveryOutcomeUnblocks ==
    [][ /\ (IsStartPrint /\ m_can_process_job)
           => IF CanSlice
              THEN Reslices(issued') /\ ~m_can_process_job'
              ELSE /\ IdleAfter
                   /\ Len(out') = 1 /\ out'[1].type = "error"
                   /\ ~Reslices(issued')
        /\ ~m_can_process_job' => reslicing'
        /\ IsCompletion
           => /\ IdleAfter
              /\ m_can_process_job => (out' = <<>> /\ issued' = <<>>)
      ]_vars

\* The slicing of an accepted job has ended in an error: one error message was posted
\* for it and the panel is ready again, the job state cleared.
C36_Witness ==
    /\ call.op = "OnSlicingProcessCompleted"
    /\ call.status = "Error"
    /\ call.pending # <<>>
    /\ Len(out) = 1 /\ out[1].type = "error" /\ out[1].printer_id = call.pending[1]
    /\ m_can_process_job /\ jobPrinterId = "" /\ jobCommand = <<>> /\ jobLocalFilePath = ""
    /\ ~reslicing

\* A jog command for a known printer has been handled.
IsJog ==
    /\ IsCommand
    /\ call'.event.commandType = "movement_control"
    /\ call'.event.action = "jog"
    /\ FindsPrinter
\* The keys of the axes given with the command.
AxesGiven == {key \in DOMAIN call'.event.parameters : Len(key) = 2 /\ key[1] = "axes"}
\* The input of the jog is valid: an axis is given, X, Y and Z are at home, every axis
\* given is named X, Y or Z in either case and has a number for its value.
JogValid ==
    /\ AxesGiven # {}
    /\ {"X", "Y", "Z"} \subseteq call'.env.at_home
    /\ \A key \in AxesGiven :
           /\ key[2] \in {"X", "Y", "Z", "x", "y", "z"}
           /\ ToDouble(call'.event.parameters[key])
\* The axis moves among what was asked.
AxisMoves(asked) == {k \in 1 .. Len(asked) : asked[k].what = "command_axis_control"}

\* C37: a jog command moves no axis unless its whole input is valid: at least one axis is
\* given, X, Y and Z are all at home, and every axis given has a name among X, Y, Z and a
\* numeric value.  Otherwise exactly one error message is posted and nothing is asked of
\* the printer.  With valid input the moves asked are those of the axes given.
C37_JogOnlyIfValid ==
    [][ IsJog
        => /\ AxisMoves(issued') # {} => JogValid
           /\ ~JogValid => (Len(out') = 1 /\ out'[1].type = "error" /\ issued' = <<>>)
           /\ (JogValid /\ call'.env.throws_at = 0)
              => /\ Len(issued') = Cardinality(AxesGiven)
                 /\ OnlyOne(out', "success")
      ]_vars

\* A jog of X and Z, all axes at home, was refused for the value of Z, and X was not
\* moved either.
C37_Witness ==
    /\ call.op = "HandlePrintagoCommand"
    /\ call.event.commandType = "movement_control" /\ call.event.action = "jog"
    /\ DOMAIN call.event.parameters = {<<"printer_id">>, <<"axes", "X">>, <<"axes", "Z">>}
    /\ call.event.parameters[<<"printer_id">>] \in Printers
    /\ call.env.at_home = {"X", "Y", "Z"}
    /\ OnlyError(out, <<"invalid value for axis", "Z">>)
    /\ issued = <<>>

\* C38: every command event handled posts at least one message (status, success or
\* error), whatever its command type, action and parameters, unknown command types and
\* unknown printer ids included; and no handler posts both an error and a success
\* message.
C38_AlwaysAnswers ==
    [][ IsCommand
        => /\ Len(out') >= 1
           /\ \A k \in 1 .. Len(out') : out'[k].type \in {"status", "success", "error"}
           /\ (\E k \in 1 .. Len(out') : out'[k].type = "error")
              => (\A k \in 1 .. Len(out') : out'[k].type # "success")
      ]_vars

----------------------------------------------------------------------------
(* A property of DownloadFileFromURL, checked under FairSpecDownload. *)

\* Some attempt ended in on_complete.
SomeCompleted == \E k \in 1 .. Len(attempts) : attempts[k] = "complete"

\* C39: DownloadFileFromURL terminates under every interleaving of its two threads, as
\* long as every HTTP attempt ends in one of its two callbacks: the call returns; the
\* download thread makes at most 3 attempts, none after a completed one; the caller
\* returns only after the download thread has ended; and the value returned is true
\* exactly when an attempt completed.
C39_DownloadTerminates ==
    /\ <>(caller = "done")
    /\ [](/\ Len(attempts) <= 3
          /\ retry_count <= max_retries
          /\ \A k \in 1 .. Len(attempts) - 1 : attempts[k] = "error")
    /\ [](caller = "done"
          => /\ download_thread = "finished"
             /\ returned = {SomeCompleted})

\* The call has returned true after two failed attempts and a third that completed.
C39_Witness ==
    /\ caller = "done"
    /\ download_thread = "finished"
    /\ attempts = <<"error", "error", "complete">>
    /\ returned = {TRUE}

----------------------------------------------------------------------------
(* A property of the navigation handler, checked under SpecNavigation. *)

\* The components of the path of the url just requested.
Components == wxStringTokenize(call'.url.path, "/")

\* C40: every navigation to a printago:// url is vetoed; a command event is posted only
\* when the path has a component for the command type and one for the action; a path
\* with fewer components posts no command and no component that is not there is read.
C40_NavigationDispatch ==
    [][ (call'.op = "OnNavigationRequest" /\ call'.url.scheme = "printago")
        => /\ vetoed'
           /\ out' # <<>> => Len(Components) >= 3
           /\ Len(Components) < 3 => out' = <<>>
           /\ item_read' = {}
      ]_vars

====
